---- MODULE Spec2Model ----
(***************************************************************************)
(* Project Samarth: the DataFetcher (HTTP client with a disk cache and a   *)
(* synthetic-data fallback), the QueryEngine's entity extraction and       *)
(* process_query pipeline, and the AnalyticsEngine's trend and correlation *)
(* routines, as state machines over bounded inputs.                        *)
(***************************************************************************)
EXTENDS Integers, Sequences, FiniteSets, TLC

VARIABLES
    api_key_set,    \* Config.DATA_GOV_API_KEY differs from the placeholder
    hash_seed,      \* the seed of hash() in this interpreter (PYTHONHASHSEED)
    cache,          \* the cache directory: file name -> [content, mtime]
    now,            \* time.time(), in whole seconds
    request_times,  \* DataFetcher.request_times
    http_requests,  \* number of session.get calls issued so far
    calls,          \* number of fetch_data calls made so far
    ticks,          \* number of clock advances so far
    origin,         \* file name -> the result the live fetch that wrote it returned
    last,           \* the last call of the fetcher: its arguments, what it saw, its result
    query,          \* the query string given to the query engine
    words,          \* the words the query string was put together from
    parsed,         \* the result of QueryEngine._parse_query on the query
    data_results,   \* the datasets handed to the analytics engine
    rounding,       \* the direction the floating-point growth rate is rounded in
    analysis,       \* the result of the analysis routine
    env,            \* a query's surroundings: what the API answers, what it is given
    raised,         \* the exceptions raised while the query was processed
    lineage,        \* what fetch_data returned for each dataset of the query
    response        \* the result of QueryEngine.process_query

fetch_vars == <<api_key_set, hash_seed, cache, now, request_times, http_requests, calls,
               ticks, origin, last>>

-----------------------------------------------------------------------------
(* Bounds of the model. *)
MaxCalls == 2
MaxTicks == 2

(* Program constants (src/src/config.py). *)
CACHE_TTL == 3600
ENABLE_CACHE == TRUE
API_RATE_LIMIT == 100
RATE_WINDOW == 3600
DEFAULT_LIMIT == 1000
DEFAULT_OFFSET == 0

-----------------------------------------------------------------------------
(* Python values: str, int and None, as they occur in keyword arguments.   *)
PyStr(s) == [t |-> "str", s |-> s, n |-> 0]
PyInt(n) == [t |-> "int", s |-> "", n |-> n]
PyNone == [t |-> "none", s |-> "", n |-> 0]

(* Config.DATA_GOV_API_KEY: the placeholder unless the environment sets it. *)
DATA_GOV_API_KEY == IF api_key_set THEN "REAL_KEY" ELSE "YOUR_API_KEY_HERE"

(* Config.API_ENDPOINTS: the configured endpoint names. *)
API_ENDPOINTS == {"imd_rainfall", "agriculture_production", "crop_yield",
                  "district_wise_crops"}

(* Config.get_api_url: the URL of a configured endpoint, ValueError otherwise. *)
get_api_url(endpoint_name) ==
    IF endpoint_name \in API_ENDPOINTS
    THEN [raises |-> FALSE, url |-> <<"https://api.data.gov.in/resource/", endpoint_name>>]
    ELSE [raises |-> TRUE, url |-> <<>>]

(* A dict is a sequence of <<key, value>> pairs in insertion order, keys    *)
(* unique.  kwargs.get(key, default).                                       *)
DictHas(d, k) == \E i \in DOMAIN d : d[i][1] = k
DictGet(d, k, default) ==
    IF DictHas(d, k) THEN d[CHOOSE i \in DOMAIN d : d[i][1] = k][2] ELSE default

RECURSIVE FilterItems(_)
FilterItems(kwargs) ==
    IF kwargs = <<>> THEN <<>>
    ELSE LET kv == Head(kwargs)
             rest == FilterItems(Tail(kwargs))
         IN IF kv[1] \notin {"limit", "offset"} /\ kv[2] # PyNone
            THEN <<<<"filters[" \o kv[1] \o "]", kv[2]>>>> \o rest
            ELSE rest

(* Config.get_api_params: the four standard parameters, then one           *)
(* filters[key] entry per keyword argument that is not limit/offset and is *)
(* not None, in the order the arguments were given.                        *)
get_api_params(kwargs) ==
    << <<"api-key", PyStr(DATA_GOV_API_KEY)>>,
       <<"format", PyStr("json")>>,
       <<"limit", DictGet(kwargs, "limit", PyInt(DEFAULT_LIMIT))>>,
       <<"offset", DictGet(kwargs, "offset", PyInt(DEFAULT_OFFSET))>> >>
    \o FilterItems(kwargs)

(* is_demo_mode with the negation lost. *)
is_demo_mode_negation_lost == DATA_GOV_API_KEY # "YOUR_API_KEY_HERE"

(* Config.validate_config / Config.is_demo_mode. *)
validate_config == DATA_GOV_API_KEY # "YOUR_API_KEY_HERE"
is_demo_mode == ~validate_config

-----------------------------------------------------------------------------
(* json.dumps(params, sort_keys=True): the items ordered by key.  The keys  *)
(* that occur, in the order Python compares strings.                        *)
SortedKeys == <<"api-key", "filters[crop]", "filters[state]", "filters[year]",
                "format", "limit", "offset">>

(* json.dumps without sort_keys: the items in insertion order. *)
json_dumps_unsorted(d) == d

json_dumps_sorted(d) ==
    LET ks == SelectSeq(SortedKeys, LAMBDA k : DictHas(d, k))
    IN [i \in 1..Len(ks) |-> <<ks[i], DictGet(d, ks[i], PyNone)>>]

(* hashlib.md5(...).hexdigest(): a digest, taken to be free of collisions   *)
(* on the strings of the model.                                             *)
md5(s) == [md5 |-> s]

(* DataFetcher._get_cache_key: md5 of "<endpoint>_<json of the params>".    *)
get_cache_key(endpoint, params) ==
    md5(<<endpoint, "_", json_dumps_sorted(params)>>)

(* DataFetcher._get_cache_path: <cache_dir>/<cache_key>.json *)
get_cache_path(cache_key) == <<cache_key, ".json">>

(* _is_cache_valid with the comparison reversed, and with <= for <. *)
is_cache_valid_reversed(c, t, cache_path) ==
    IF cache_path \notin DOMAIN c THEN FALSE
    ELSE IF ~ENABLE_CACHE THEN FALSE
    ELSE LET cache_age == t - c[cache_path].mtime
         IN cache_age > CACHE_TTL

is_cache_valid_inclusive(c, t, cache_path) ==
    IF cache_path \notin DOMAIN c THEN FALSE
    ELSE IF ~ENABLE_CACHE THEN FALSE
    ELSE LET cache_age == t - c[cache_path].mtime
         IN cache_age <= CACHE_TTL

is_cache_valid_ignoring_age(c, t, cache_path) ==
    IF cache_path \notin DOMAIN c THEN FALSE
    ELSE ENABLE_CACHE

(* DataFetcher._is_cache_valid on the directory c at time t. *)
is_cache_valid(c, t, cache_path) ==
    IF cache_path \notin DOMAIN c THEN FALSE
    ELSE IF ~ENABLE_CACHE THEN FALSE
    ELSE LET cache_age == t - c[cache_path].mtime
         IN cache_age < CACHE_TTL

(* A result dict is a record; the fields json.dump writes, in the order     *)
(* fetch_data builds them.                                                  *)
ResultFields == <<"data", "endpoint", "url", "parameters", "timestamp",
                  "from_cache", "demo_mode", "cache_expired", "records_count">>

(* json.dump(data, f): the text of the file, one member per field. *)
json_dump(data) ==
    LET ks == SelectSeq(ResultFields, LAMBDA k : k \in DOMAIN data)
    IN [i \in 1..Len(ks) |-> <<ks[i], data[ks[i]]>>]

(* json.load(f): the dict the text of the file denotes. *)
json_load(text) ==
    [k \in {text[i][1] : i \in DOMAIN text} |->
        text[CHOOSE i \in DOMAIN text : text[i][1] = k][2]]

(* DataFetcher._read_cache / _write_cache on the directory c. *)
read_cache(c, cache_path) == json_load(c[cache_path].content)

(* _write_cache rewriting every file of the directory it writes into. *)
write_cache_touching_all(c, t, cache_path, data) ==
    [p \in DOMAIN c \cup {cache_path} |->
        IF p = cache_path THEN [content |-> json_dump(data), mtime |-> t]
        ELSE [content |-> c[p].content, mtime |-> t]]

(* DataFetcher._write_cache at time t: the file of cache_path is written    *)
(* anew, the others are left.                                               *)
write_cache(c, t, cache_path, data) ==
    [p \in DOMAIN c \cup {cache_path} |->
        IF p = cache_path THEN [content |-> json_dump(data), mtime |-> t] ELSE c[p]]

(* d[k] = v on a dict held as a record. *)
SetItem(d, k, v) == [x \in DOMAIN d \cup {k} |-> IF x = k THEN v ELSE d[x]]

(* d.get(k, default) on a dict held as a record. *)
Get(d, k, default) == IF k \in DOMAIN d THEN d[k] ELSE default

-----------------------------------------------------------------------------
(* ','.join(names) *)
RECURSIVE JoinStr(_)
JoinStr(names) ==
    IF names = <<>> THEN ""
    ELSE IF Len(names) = 1 THEN names[1]
    ELSE names[1] \o "," \o JoinStr(Tail(names))

(* str.split(',') on the lists of state names that occur: one to three      *)
(* different names of SplitNames.                                           *)
Split(s) ==
    LET SplitNames == {"Punjab", "Haryana", "Maharashtra"}
        SplitTable ==
            {<<JoinStr(names), names>> :
                names \in {ns \in UNION {[1..n -> SplitNames] : n \in 1..3} :
                              \A i, j \in DOMAIN ns : ns[i] = ns[j] => i = j}}
    IN IF \E e \in SplitTable : e[1] = s
       THEN (CHOOSE e \in SplitTable : e[1] = s)[2]
       ELSE <<s>>

(* A JSON body: a dict (with or without a 'records' member) or a list. *)
JsonDict(records) == [type |-> "dict", has_records |-> TRUE, records |-> records]
JsonDictNoRecords == [type |-> "dict", has_records |-> FALSE, records |-> <<>>]
JsonList(items) == [type |-> "list", has_records |-> FALSE, records |-> items]

DemoYears == <<2018, 2019, 2020, 2021, 2022, 2023>>
DemoCrops == <<"Rice", "Wheat", "Cotton", "Sugarcane", "Maize">>
DemoDistrictCrops == <<"Wheat", "Rice", "Sugarcane", "Potato">>

RECURSIVE Flatten(_)
Flatten(ss) == IF ss = <<>> THEN <<>> ELSE Head(ss) \o Flatten(Tail(ss))

(* hash(x) % m: a number below m that the interpreter's hash seed fixes.    *)
(* Under the seeds of the model hash(x) is 0 or 4800, whatever x is.        *)
HashSeeds == {0, 1}
hash_mod(m) == IF hash_seed = 0 THEN 0 ELSE 4800 % m

(* The base values of the synthetic records. *)
base_rainfall(state) == IF state = "Punjab" THEN 1200 ELSE 1100
base_prod(crop) ==
    CASE crop = "Rice" -> 5000
      [] crop = "Wheat" -> 6000
      [] crop = "Cotton" -> 3000
      [] crop = "Sugarcane" -> 8000
      [] crop = "Maize" -> 4000
      [] OTHER -> 3000

(* DataFetcher._get_demo_data: synthetic records for the endpoint, marked   *)
(* demo_mode, with the caller's filters (not the API parameters).  Of the   *)
(* measured columns the records carry annual_rainfall_mm and                *)
(* production_tonnes; monsoon_rainfall_mm, area_hectares and                *)
(* yield_kg_per_hectare are left out.                                       *)
get_demo_data(endpoint_name, filters, t) ==
    LET records ==
          CASE endpoint_name = "imd_rainfall" ->
                 LET states == Split(DictGet(filters, "state", PyStr("Punjab,Haryana")).s)
                 IN Flatten([i \in DOMAIN states |->
                        [j \in DOMAIN DemoYears |->
                            [state |-> states[i], year |-> DemoYears[j],
                             annual_rainfall_mm |->
                                 base_rainfall(states[i]) + (DemoYears[j] - 2018) * 50
                                 + (hash_mod(200) - 100),
                             district |-> states[i] \o "_District_1"]]])
            [] endpoint_name = "agriculture_production" ->
                 LET states == Split(DictGet(filters, "state",
                                        PyStr("Punjab,Haryana,Maharashtra")).s)
                 IN Flatten([i \in DOMAIN states |->
                        Flatten([k \in DOMAIN DemoCrops |->
                            [j \in DOMAIN DemoYears |->
                                [state |-> states[i], crop |-> DemoCrops[k],
                                 year |-> DemoYears[j],
                                 production_tonnes |->
                                     base_prod(DemoCrops[k]) + (DemoYears[j] - 2018) * 200
                                     + hash_mod(1000)]]])])
            [] endpoint_name = "district_wise_crops" ->
                 LET state == DictGet(filters, "state", PyStr("Uttar Pradesh")).s
                 IN Flatten([i \in 1..5 |->
                        [k \in DOMAIN DemoDistrictCrops |->
                            [state |-> state,
                             district |-> state \o "_District_" \o ToString(i),
                             crop |-> DemoDistrictCrops[k],
                             production_tonnes |-> 1000 + hash_mod(5000),
                             year |-> 2023]]])
            [] OTHER -> <<>>
    IN [data |-> JsonDict(records),
        endpoint |-> endpoint_name,
        url |-> <<"demo://", endpoint_name>>,
        parameters |-> filters,
        timestamp |-> t,
        from_cache |-> FALSE,
        demo_mode |-> TRUE,
        records_count |-> Len(records)]

(* DataFetcher._check_rate_limit at time t: the request times of the last   *)
(* hour, and the time after the sleep (if any).                             *)
check_rate_limit(rt, t) ==
    LET kept == SelectSeq(rt, LAMBDA x : t - x < RATE_WINDOW)
        oldest_request == CHOOSE x \in {kept[i] : i \in DOMAIN kept} :
                              \A i \in DOMAIN kept : x <= kept[i]
        wait_time == RATE_WINDOW - (t - oldest_request)
    IN [request_times |-> kept,
        now |-> IF Len(kept) >= API_RATE_LIMIT /\ wait_time > 0 THEN t + wait_time ELSE t]

(* len(data.get('records', [])) if isinstance(data, dict) else len(data) *)
records_count_of(data) ==
    IF data.type = "dict"
    THEN (IF data.has_records THEN Len(data.records) ELSE 0)
    ELSE Len(data.records)

(* bool(d) of a dict held as a record. *)
Truthy(d) == DOMAIN d # {}

(* self.session.get(url, params, timeout) and response.raise_for_status()   *)
(* on a session that retries a failed request once.                         *)
session_get_retrying(outcome) ==
    [requests |-> IF outcome.ok THEN 1 ELSE 2, ok |-> outcome.ok, data |-> outcome.data]

(* self.session.get(url, params, timeout) and response.raise_for_status()   *)
(* on requests.Session() as DataFetcher.__init__ makes it, with no retrying *)
(* adapter mounted: one request, which succeeds or raises.                  *)
session_get(outcome) ==
    [requests |-> 1, ok |-> outcome.ok, data |-> outcome.data]

-----------------------------------------------------------------------------
(* The handler without the look at the cache file. *)
request_failed_no_stale(c, t, cache_path, endpoint_name, filters) ==
    [result |-> get_demo_data(endpoint_name, filters, t), branch |-> "fallback"]

(* The handler marking the expired entry it returns as demo data. *)
request_failed_stale_as_demo(c, t, cache_path, endpoint_name, filters) ==
    IF cache_path \in DOMAIN c /\ Truthy(read_cache(c, cache_path))
    THEN [result |-> SetItem(SetItem(SetItem(read_cache(c, cache_path), "from_cache", TRUE),
                                     "cache_expired", TRUE),
                             "demo_mode", TRUE),
          branch |-> "stale"]
    ELSE [result |-> get_demo_data(endpoint_name, filters, t), branch |-> "fallback"]

(* DataFetcher.fetch_data, the handler of requests.exceptions.            *)
(* RequestException: the cache file of the request if there is one,        *)
(* whatever its age, and demo data otherwise.                              *)
request_failed(c, t, cache_path, endpoint_name, filters) ==
    IF cache_path \in DOMAIN c /\ Truthy(read_cache(c, cache_path))
    THEN [result |-> SetItem(SetItem(read_cache(c, cache_path), "from_cache", TRUE),
                             "cache_expired", TRUE),
          branch |-> "stale"]
    ELSE [result |-> get_demo_data(endpoint_name, filters, t), branch |-> "fallback"]

(* DataFetcher.fetch_data on the directory c, the request times rt and the  *)
(* clock t, with the outcome of the HTTP request (if one is made) given.    *)
(* Returns the result with the state the call leaves, the number of HTTP    *)
(* requests it issued and the branch it returned from.                      *)
fetch_data(c, rt, t, endpoint_name, filters, outcome) ==
    LET u == get_api_url(endpoint_name)
        params == get_api_params(filters)
        cache_key == get_cache_key(endpoint_name, params)
        cache_path == get_cache_path(cache_key)
        same == [cache |-> c, request_times |-> rt, now |-> t, http |-> 0,
                 cache_path |-> cache_path]
        rl == check_rate_limit(rt, t)
        live == [data |-> outcome.data,
                 endpoint |-> endpoint_name,
                 url |-> u.url,
                 parameters |-> params,
                 timestamp |-> rl.now,
                 from_cache |-> FALSE,
                 records_count |-> records_count_of(outcome.data)]
    IN IF u.raises
       THEN [same EXCEPT !.cache_path = <<>>] @@
            [result |-> get_demo_data(endpoint_name, filters, t), branch |-> "invalid"]
       ELSE IF is_cache_valid(c, t, cache_path) /\ Truthy(read_cache(c, cache_path))
       THEN same @@
            [result |-> SetItem(read_cache(c, cache_path), "from_cache", TRUE),
             branch |-> "cache"]
       ELSE IF is_demo_mode
       THEN same @@
            [result |-> get_demo_data(endpoint_name, filters, t), branch |-> "demo"]
       ELSE IF session_get(outcome).ok
       THEN [cache |-> write_cache(c, rl.now, cache_path, live),
             request_times |-> Append(rl.request_times, rl.now),
             now |-> rl.now, http |-> session_get(outcome).requests,
             cache_path |-> cache_path,
             result |-> live, branch |-> "live"]
       ELSE [cache |-> c, request_times |-> rl.request_times, now |-> rl.now,
             http |-> session_get(outcome).requests, cache_path |-> cache_path]
            @@ request_failed(c, rl.now, cache_path, endpoint_name, filters)

-----------------------------------------------------------------------------
(* The inputs of the model. *)
Call(endpoint_name, filters) == [endpoint_name |-> endpoint_name, filters |-> filters]

CallInputs ==
    { Call("imd_rainfall", << <<"state", PyStr("Punjab")>>, <<"year", PyStr("2020")>> >>),
      Call("imd_rainfall", << <<"year", PyStr("2020")>>, <<"state", PyStr("Punjab")>> >>),
      Call("imd_rainfall", << <<"state", PyStr("Punjab")>>, <<"year", PyNone>> >>),
      Call("imd_rainfall", << <<"limit", PyInt(1)>> >>),
      Call("crop_yield", << <<"state", PyStr("Punjab")>> >>),
      Call("no_such_endpoint", << <<"state", PyStr("Punjab")>> >>) }

Row(s, y) == [state |-> s, crop |-> "", year |-> y, district |-> ""]

HttpFailure == [ok |-> FALSE, data |-> JsonDictNoRecords]
HttpOutcomes ==
    { HttpFailure,
      [ok |-> TRUE, data |-> JsonDict(<<Row("Punjab", 2020)>>)],
      [ok |-> TRUE, data |-> JsonList(<<Row("Punjab", 2020), Row("Punjab", 2021)>>)] }

NoResult == [from_cache |-> FALSE]

NoCall == [endpoint |-> "", filters |-> <<>>, request |-> <<"", {}>>, at |-> 0,
           outcome |-> HttpFailure, branch |-> "none", http |-> 0,
           known |-> FALSE, stored |-> NoResult, result |-> NoResult]

(* A request as the API sees it: the endpoint and the set of parameters. *)
ParamSet(params) == {params[i] : i \in DOMAIN params}
Request(endpoint_name, filters) ==
    IF endpoint_name \in API_ENDPOINTS
    THEN <<endpoint_name, ParamSet(get_api_params(filters))>>
    ELSE <<endpoint_name, {}>>

Init ==
    /\ api_key_set \in BOOLEAN
    /\ hash_seed \in HashSeeds
    /\ cache = <<>>
    /\ now = 0
    /\ request_times = <<>>
    /\ http_requests = 0
    /\ calls = 0
    /\ ticks = 0
    /\ origin = <<>>
    /\ last = NoCall
    /\ query = <<>>
    /\ words = <<>>
    /\ parsed = [intent |-> "none"]
    /\ data_results = <<>>
    /\ rounding = 0
    /\ analysis = <<>>
    /\ env = <<>>
    /\ raised = <<>>
    /\ lineage = <<>>
    /\ response = <<>>

(* A call of fetch_data(endpoint_name, **filters), the outcome of its HTTP   *)
(* request (if it makes one) given.  origin and last record what was stored *)
(* for which request and what the call saw and returned.                    *)
Fetch(call, outcome) ==
    LET endpoint_name == call.endpoint_name
        filters == call.filters
    IN \E req \in {Request(endpoint_name, filters)} :
       \E r \in {fetch_data(cache, request_times, now, endpoint_name, filters, outcome)} :
          /\ (r.http = 0 => outcome = HttpFailure)
          /\ cache' = r.cache
          /\ request_times' = r.request_times
          /\ now' = r.now
          /\ http_requests' = http_requests + r.http
          /\ calls' = calls + 1
          /\ origin' = IF r.branch = "live"
                        THEN [q \in DOMAIN origin \cup {req} |->
                                 IF q = req THEN r.result ELSE origin[q]]
                        ELSE origin
          /\ last' = [endpoint |-> endpoint_name, filters |-> filters,
                      request |-> req, at |-> now, outcome |-> outcome,
                      branch |-> r.branch, http |-> r.http,
                      known |-> req \in DOMAIN origin,
                      stored |-> IF req \in DOMAIN origin THEN origin[req] ELSE NoResult,
                      result |-> r.result]
          /\ UNCHANGED <<api_key_set, hash_seed, ticks>>
          /\ UNCHANGED <<query, words, parsed>>
          /\ UNCHANGED <<data_results, rounding, analysis, env, raised, response, lineage>>

FetchData ==
    /\ calls < MaxCalls
    /\ \E call \in CallInputs, outcome \in HttpOutcomes : Fetch(call, outcome)

(* Time passes between calls. *)
Tick ==
    /\ calls > 0
    /\ ticks < MaxTicks
    /\ \E d \in {1, CACHE_TTL - 1} : now' = now + d
    /\ ticks' = ticks + 1
    /\ UNCHANGED <<api_key_set, hash_seed, cache, request_times, http_requests, calls,
                   origin, last>>
    /\ UNCHANGED <<query, words, parsed>>
    /\ UNCHANGED <<data_results, rounding, analysis, env, raised, response, lineage>>

Next == FetchData \/ Tick

vars == <<api_key_set, hash_seed, cache, now, request_times, http_requests, calls, ticks, origin,
          last, query, words, parsed, data_results, rounding, analysis, env, raised, response,
          lineage>>

Spec == Init /\ [][Next]_vars

-----------------------------------------------------------------------------
(* The fetcher with its cache cleared between calls. *)

(* The digits of hashlib's hexdigest, of which the name of a cache file is  *)
(* made, and the characters of the endpoint names.                          *)
HexDigits == {"0", "1", "2", "3", "4", "5", "6", "7", "8", "9",
              "a", "b", "c", "d", "e", "f"}
Letters ==
    [imd_rainfall |-> {"i", "m", "d", "_", "r", "a", "n", "f", "l"},
     agriculture_production |-> {"a", "g", "r", "i", "c", "u", "l", "t", "e", "_",
                                 "p", "o", "d", "n"},
     crop_yield |-> {"c", "r", "o", "p", "_", "y", "i", "e", "l", "d"},
     district_wise_crops |-> {"d", "i", "s", "t", "r", "c", "_", "w", "e", "o", "p"}]

(* self.cache_dir.glob(pattern) for the patterns of clear_cache: the sets   *)
(* of files the glob can yield.  "*.json" yields every cache file.          *)
(* "*<endpoint_name>*.json" yields the files whose name has the endpoint    *)
(* name in it; the name of a cache file is 32 hexadecimal digits, so a name *)
(* with any other character in it is in none, and which files a name of     *)
(* hexadecimal digits is in depends on the digests.                         *)
glob(c, endpoint_name) ==
    IF endpoint_name = ""
    THEN {DOMAIN c}
    ELSE IF Letters[endpoint_name] \subseteq HexDigits
    THEN SUBSET DOMAIN c
    ELSE {{}}

(* cache_file.unlink() for every file of the glob. *)
unlink(c, files) == [cache_path \in DOMAIN c \ files |-> c[cache_path]]

(* The endpoint names clear_cache is called with; "" stands for no argument. *)
ClearInputs == {"", "imd_rainfall", "crop_yield"}

(* A call of clear_cache(endpoint_name).  origin keeps the entries whose    *)
(* file is left.                                                            *)
ClearCache ==
    /\ \E endpoint_name \in ClearInputs :
         \E files \in glob(cache, endpoint_name) :
            /\ cache' = unlink(cache, files)
            /\ origin' = [q \in {x \in DOMAIN origin :
                                    get_cache_path(get_cache_key(origin[x].endpoint,
                                                                 origin[x].parameters))
                                        \notin files} |-> origin[q]]
            /\ last' = [NoCall EXCEPT !.endpoint = endpoint_name, !.branch = "clear",
                                      !.at = now]
    /\ UNCHANGED <<api_key_set, hash_seed, now, request_times, http_requests, calls, ticks>>
    /\ UNCHANGED <<query, words, parsed>>
    /\ UNCHANGED <<data_results, rounding, analysis, env, raised, response, lineage>>

NextClear == FetchData \/ ClearCache \/ Tick

SpecClear == Init /\ [][NextClear]_vars

-----------------------------------------------------------------------------
(* One fetcher called many times over for the same data, within the hour.  *)
MaxRateCalls == 101

RateCall == Call("imd_rainfall", << <<"state", PyStr("Punjab")>> >>)

RateFetch ==
    /\ calls < MaxRateCalls
    /\ \E outcome \in HttpOutcomes : Fetch(RateCall, outcome)

NextRate == RateFetch

SpecRate == Init /\ [][NextRate]_vars

-----------------------------------------------------------------------------
(* The query engine.  A str is a sequence of one-character strings.         *)

UpperCase == <<"A", "B", "C", "D", "E", "F", "G", "H", "I", "J", "K", "L", "M",
               "N", "O", "P", "Q", "R", "S", "T", "U", "V", "W", "X", "Y", "Z">>
LowerCase == <<"a", "b", "c", "d", "e", "f", "g", "h", "i", "j", "k", "l", "m",
               "n", "o", "p", "q", "r", "s", "t", "u", "v", "w", "x", "y", "z">>
Digits == <<"0", "1", "2", "3", "4", "5", "6", "7", "8", "9">>
Whitespace == {" "}

(* str.lower() *)
lower(s) ==
    LET LowerChar(c) ==
            IF \E i \in DOMAIN UpperCase : UpperCase[i] = c
            THEN LowerCase[CHOOSE i \in DOMAIN UpperCase : UpperCase[i] = c]
            ELSE c
    IN [i \in DOMAIN s |-> LowerChar(s[i])]

(* needle in hay *)
StartsAt(needle, hay, i) ==
    /\ i + Len(needle) - 1 <= Len(hay)
    /\ \A k \in 1..Len(needle) : hay[i + k - 1] = needle[k]
Contains(needle, hay) == \E i \in 1..(Len(hay) - Len(needle) + 1) : StartsAt(needle, hay, i)

(* Config.INDIAN_STATES *)
INDIAN_STATES ==
    <<
      <<"A", "n", "d", "h", "r", "a", " ", "P", "r", "a", "d", "e", "s", "h">>,
      <<"A", "r", "u", "n", "a", "c", "h", "a", "l", " ", "P", "r", "a", "d", "e", "s", "h">>,
      <<"A", "s", "s", "a", "m">>,
      <<"B", "i", "h", "a", "r">>,
      <<"C", "h", "h", "a", "t", "t", "i", "s", "g", "a", "r", "h">>,
      <<"G", "o", "a">>,
      <<"G", "u", "j", "a", "r", "a", "t">>,
      <<"H", "a", "r", "y", "a", "n", "a">>,
      <<"H", "i", "m", "a", "c", "h", "a", "l", " ", "P", "r", "a", "d", "e", "s", "h">>,
      <<"J", "h", "a", "r", "k", "h", "a", "n", "d">>,
      <<"K", "a", "r", "n", "a", "t", "a", "k", "a">>,
      <<"K", "e", "r", "a", "l", "a">>,
      <<"M", "a", "d", "h", "y", "a", " ", "P", "r", "a", "d", "e", "s", "h">>,
      <<"M", "a", "h", "a", "r", "a", "s", "h", "t", "r", "a">>,
      <<"M", "a", "n", "i", "p", "u", "r">>,
      <<"M", "e", "g", "h", "a", "l", "a", "y", "a">>,
      <<"M", "i", "z", "o", "r", "a", "m">>,
      <<"N", "a", "g", "a", "l", "a", "n", "d">>,
      <<"O", "d", "i", "s", "h", "a">>,
      <<"P", "u", "n", "j", "a", "b">>,
      <<"R", "a", "j", "a", "s", "t", "h", "a", "n">>,
      <<"S", "i", "k", "k", "i", "m">>,
      <<"T", "a", "m", "i", "l", " ", "N", "a", "d", "u">>,
      <<"T", "e", "l", "a", "n", "g", "a", "n", "a">>,
      <<"T", "r", "i", "p", "u", "r", "a">>,
      <<"U", "t", "t", "a", "r", " ", "P", "r", "a", "d", "e", "s", "h">>,
      <<"U", "t", "t", "a", "r", "a", "k", "h", "a", "n", "d">>,
      <<"W", "e", "s", "t", " ", "B", "e", "n", "g", "a", "l">>,
      <<"D", "e", "l", "h", "i">>,
      <<"J", "a", "m", "m", "u", " ", "a", "n", "d", " ", "K", "a", "s", "h", "m", "i", "r">>,
      <<"L", "a", "d", "a", "k", "h">>,
      <<"P", "u", "d", "u", "c", "h", "e", "r", "r", "y">>,
      <<"C", "h", "a", "n", "d", "i", "g", "a", "r", "h">>,
      <<"D", "a", "d", "r", "a", " ", "a", "n", "d", " ", "N", "a", "g", "a", "r", " ", "H", "a", "v", "e", "l", "i">>,
      <<"D", "a", "m", "a", "n", " ", "a", "n", "d", " ", "D", "i", "u">>,
      <<"L", "a", "k", "s", "h", "a", "d", "w", "e", "e", "p">>,
      <<"A", "n", "d", "a", "m", "a", "n", " ", "a", "n", "d", " ", "N", "i", "c", "o", "b", "a", "r", " ", "I", "s", "l", "a", "n", "d", "s">>
    >>

(* Config.STATE_ABBREVIATIONS, as <<abbreviation, index of the state in INDIAN_STATES>> *)
STATE_ABBREVIATIONS ==
    <<
      <<<<"A", "P">>, 1>>,
      <<<<"A", "R">>, 2>>,
      <<<<"A", "S">>, 3>>,
      <<<<"B", "R">>, 4>>,
      <<<<"C", "G">>, 5>>,
      <<<<"G", "A">>, 6>>,
      <<<<"G", "J">>, 7>>,
      <<<<"H", "R">>, 8>>,
      <<<<"H", "P">>, 9>>,
      <<<<"J", "H">>, 10>>,
      <<<<"K", "A">>, 11>>,
      <<<<"K", "L">>, 12>>,
      <<<<"M", "P">>, 13>>,
      <<<<"M", "H">>, 14>>,
      <<<<"M", "N">>, 15>>,
      <<<<"M", "L">>, 16>>,
      <<<<"M", "Z">>, 17>>,
      <<<<"N", "L">>, 18>>,
      <<<<"O", "D">>, 19>>,
      <<<<"P", "B">>, 20>>,
      <<<<"R", "J">>, 21>>,
      <<<<"S", "K">>, 22>>,
      <<<<"T", "N">>, 23>>,
      <<<<"T", "G">>, 24>>,
      <<<<"T", "R">>, 25>>,
      <<<<"U", "P">>, 26>>,
      <<<<"U", "K">>, 27>>,
      <<<<"W", "B">>, 28>>,
      <<<<"D", "L">>, 29>>,
      <<<<"J", "K">>, 30>>,
      <<<<"L", "A">>, 31>>,
      <<<<"P", "Y">>, 32>>
    >>

(* Config.MAJOR_CROPS *)
MAJOR_CROPS ==
    <<
      <<"R", "i", "c", "e">>,
      <<"W", "h", "e", "a", "t">>,
      <<"M", "a", "i", "z", "e">>,
      <<"B", "a", "j", "r", "a">>,
      <<"J", "o", "w", "a", "r">>,
      <<"B", "a", "r", "l", "e", "y">>,
      <<"R", "a", "g", "i">>,
      <<"C", "o", "t", "t", "o", "n">>,
      <<"S", "u", "g", "a", "r", "c", "a", "n", "e">>,
      <<"J", "u", "t", "e">>,
      <<"T", "o", "b", "a", "c", "c", "o">>,
      <<"T", "e", "a">>,
      <<"C", "o", "f", "f", "e", "e">>,
      <<"C", "o", "c", "o", "n", "u", "t">>,
      <<"G", "r", "o", "u", "n", "d", "n", "u", "t">>,
      <<"S", "o", "y", "b", "e", "a", "n">>,
      <<"S", "u", "n", "f", "l", "o", "w", "e", "r">>,
      <<"R", "a", "p", "e", "s", "e", "e", "d">>,
      <<"M", "u", "s", "t", "a", "r", "d">>,
      <<"P", "o", "t", "a", "t", "o">>,
      <<"O", "n", "i", "o", "n">>,
      <<"T", "o", "m", "a", "t", "o">>,
      <<"P", "u", "l", "s", "e", "s">>,
      <<"C", "h", "i", "c", "k", "p", "e", "a">>,
      <<"L", "e", "n", "t", "i", "l">>,
      <<"A", "r", "h", "a", "r">>,
      <<"M", "o", "o", "n", "g">>,
      <<"U", "r", "a", "d">>,
      <<"M", "a", "s", "o", "o", "r">>,
      <<"F", "r", "u", "i", "t", "s">>,
      <<"V", "e", "g", "e", "t", "a", "b", "l", "e", "s">>
    >>

(* Config.CROP_CATEGORIES, as <<category, indices of its crops in MAJOR_CROPS>> *)
CROP_CATEGORIES ==
    <<
      <<<<"c", "e", "r", "e", "a", "l", "s">>, {1, 2, 3, 4, 5, 6, 7}>>,
      <<<<"p", "u", "l", "s", "e", "s">>, {24, 26, 27, 28, 25, 29}>>,
      <<<<"o", "i", "l", "s", "e", "e", "d", "s">>, {15, 16, 17, 18, 19}>>,
      <<<<"c", "a", "s", "h", "_", "c", "r", "o", "p", "s">>, {8, 9, 10, 11, 12, 13}>>,
      <<<<"h", "o", "r", "t", "i", "c", "u", "l", "t", "u", "r", "e">>, {30, 31, 20, 21, 22, 14}>>
    >>

(* The elements of a list, and the list without the elements failing a test, *)
(* in order.                                                                 *)
Range(seq) == {seq[i] : i \in DOMAIN seq}

(* QueryEngine._extract_states: the full names found as substrings, in the  *)
(* order of INDIAN_STATES, then the states whose abbreviation occurs        *)
(* between spaces or before a comma and that are not in the list yet.       *)
extract_states(q) ==
    LET query_lower == lower(q)
        AbbreviationOccurs(abbr) ==
            \/ Contains(<<" ">> \o lower(abbr) \o <<" ">>, <<" ">> \o query_lower \o <<" ">>)
            \/ Contains(<<" ">> \o lower(abbr) \o <<",">>, <<" ">> \o query_lower \o <<",">>)
        by_name == SelectSeq(INDIAN_STATES, LAMBDA state : Contains(lower(state), query_lower))
        by_abbr == SelectSeq(STATE_ABBREVIATIONS,
                       LAMBDA a : /\ AbbreviationOccurs(a[1])
                                  /\ INDIAN_STATES[a[2]] \notin Range(by_name))
    IN by_name \o [i \in DOMAIN by_abbr |-> INDIAN_STATES[by_abbr[i][2]]]

(* QueryEngine._extract_crops: the crops found as substrings and the crops  *)
(* of every category found as a substring, without duplicates (a set).     *)
extract_crops(q) ==
    LET query_lower == lower(q)
    IN {MAJOR_CROPS[i] : i \in {j \in DOMAIN MAJOR_CROPS :
                                    Contains(lower(MAJOR_CROPS[j]), query_lower)}}
       \cup
       {MAJOR_CROPS[i] : i \in UNION {CROP_CATEGORIES[k][2] : k \in
                                    {j \in DOMAIN CROP_CATEGORIES :
                                        Contains(CROP_CATEGORIES[j][1], query_lower)}}}

(* int() of a string of decimal digits. *)
RECURSIVE int(_)
int(ds) ==
    LET DigitValue(c) == (CHOOSE i \in DOMAIN Digits : Digits[i] = c) - 1
    IN IF ds = <<>> THEN 0
       ELSE 10 * int(SubSeq(ds, 1, Len(ds) - 1)) + DigitValue(ds[Len(ds)])

(* The end of the longest run of characters of a class that starts at i     *)
(* (i - 1 if s[i] is not of the class).                                     *)
RECURSIVE RunEnd(_, _, _)
RunEnd(s, i, class) ==
    IF i <= Len(s) /\ s[i] \in class THEN RunEnd(s, i + 1, class) ELSE i - 1
DigitSet == {Digits[i] : i \in DOMAIN Digits}

(* re.search(r'top\s+(\d+)', s): the digits of the first match, or <<>>. *)
TopMatchAt(s, i) ==
    /\ StartsAt(<<"t", "o", "p">>, s, i)
    /\ RunEnd(s, i + 3, Whitespace) >= i + 3
    /\ RunEnd(s, RunEnd(s, i + 3, Whitespace) + 1, DigitSet) > RunEnd(s, i + 3, Whitespace)
SearchTop(s) ==
    IF \E i \in DOMAIN s : TopMatchAt(s, i)
    THEN LET i == CHOOSE j \in DOMAIN s :
                      TopMatchAt(s, j) /\ \A k \in 1..(j - 1) : ~TopMatchAt(s, k)
             d == RunEnd(s, i + 3, Whitespace) + 1
         IN SubSeq(s, d, RunEnd(s, d, DigitSet))
    ELSE <<>>

(* re.search(r'(\d+)\s+(?:most|best|highest)', s): the digits of the first *)
(* match, or <<>>.                                                          *)
MostWords == { <<"m", "o", "s", "t">>, <<"b", "e", "s", "t">>,
               <<"h", "i", "g", "h", "e", "s", "t">> }
MostMatchAt(s, i) ==
    /\ s[i] \in DigitSet
    /\ LET e == RunEnd(s, i, DigitSet)
           w == RunEnd(s, e + 1, Whitespace)
       IN w > e /\ \E word \in MostWords : StartsAt(word, s, w + 1)
SearchMost(s) ==
    IF \E i \in DOMAIN s : MostMatchAt(s, i)
    THEN LET i == CHOOSE j \in DOMAIN s :
                      MostMatchAt(s, j) /\ \A k \in 1..(j - 1) : ~MostMatchAt(s, k)
         IN SubSeq(s, i, RunEnd(s, i, DigitSet))
    ELSE <<>>

DEFAULT_TOP_N == 5

(* _extract_top_n searching the query as given, not lower-cased. *)
extract_top_n_case_sensitive(q) ==
    LET s == q
    IN IF SearchTop(s) # <<>> THEN int(SearchTop(s))
       ELSE IF SearchMost(s) # <<>> THEN int(SearchMost(s))
       ELSE DEFAULT_TOP_N

(* QueryEngine._extract_top_n *)
extract_top_n(q) ==
    LET s == lower(q)
    IN IF SearchTop(s) # <<>> THEN int(SearchTop(s))
       ELSE IF SearchMost(s) # <<>> THEN int(SearchMost(s))
       ELSE DEFAULT_TOP_N

(* \w and \b of the regular expressions. *)
WordChars == {UpperCase[i] : i \in DOMAIN UpperCase} \cup
             {LowerCase[i] : i \in DOMAIN LowerCase} \cup DigitSet \cup {"_"}
IsWordAt(s, i) == i >= 1 /\ i <= Len(s) /\ s[i] \in WordChars
BoundaryAt(s, i) == IsWordAt(s, i - 1) # IsWordAt(s, i)

(* re.search(r'\b(w1|w2|...)\b', s) *)
SearchWords(ws, s) ==
    \E w \in ws : \E i \in DOMAIN s :
        StartsAt(w, s, i) /\ BoundaryAt(s, i) /\ BoundaryAt(s, i + Len(w))

(* QueryEngine.patterns: the alternatives of the patterns that are used. *)
ComparePattern == { <<"c", "o", "m", "p", "a", "r", "e">>,
                    <<"v", "e", "r", "s", "u", "s">>,
                    <<"v", "s">>,
                    <<"d", "i", "f", "f", "e", "r", "e", "n", "c", "e", " ", "b", "e", "t", "w", "e", "e", "n">> }
TopPattern == { <<"t", "o", "p">>,
                <<"b", "e", "s", "t">>,
                <<"h", "i", "g", "h", "e", "s", "t">>,
                <<"m", "a", "x", "i", "m", "u", "m">>,
                <<"m", "o", "s", "t">> }
TrendPattern == { <<"t", "r", "e", "n", "d">>,
                  <<"o", "v", "e", "r", " ", "t", "i", "m", "e">>,
                  <<"h", "i", "s", "t", "o", "r", "i", "c", "a", "l">>,
                  <<"g", "r", "o", "w", "t", "h">>,
                  <<"d", "e", "c", "l", "i", "n", "e">> }
CorrelationPattern == { <<"c", "o", "r", "r", "e", "l", "a", "t", "i", "o", "n">>,
                        <<"r", "e", "l", "a", "t", "i", "o", "n", "s", "h", "i", "p">>,
                        <<"i", "m", "p", "a", "c", "t">>,
                        <<"e", "f", "f", "e", "c", "t">> }
ProductionPattern == { <<"p", "r", "o", "d", "u", "c", "t", "i", "o", "n">>,
                       <<"y", "i", "e", "l", "d">>,
                       <<"o", "u", "t", "p", "u", "t">>,
                       <<"h", "a", "r", "v", "e", "s", "t">> }
RainfallPattern == { <<"r", "a", "i", "n", "f", "a", "l", "l">>,
                     <<"p", "r", "e", "c", "i", "p", "i", "t", "a", "t", "i", "o", "n">>,
                     <<"m", "o", "n", "s", "o", "o", "n">> }

(* re.search(r'\b(top|best|highest|maximum|most)\s+(\d+)\b', s) *)
SearchTopPattern(s) ==
    \E w \in TopPattern : \E i \in DOMAIN s :
        /\ StartsAt(w, s, i)
        /\ BoundaryAt(s, i)
        /\ LET a == i + Len(w)
               e == RunEnd(s, a, Whitespace)
               d == RunEnd(s, e + 1, DigitSet)
           IN e >= a /\ d > e /\ BoundaryAt(s, d + 1)

(* QueryEngine._detect_intent on the lower-cased query: the first of the    *)
(* patterns compare, top, trend, correlation that matches, in the order of  *)
(* the patterns dict; otherwise 'retrieve' if the query has 'what', 'which' *)
(* or 'list' in it, and 'compare' if not.                                   *)
RetrieveWords == { <<"w", "h", "a", "t">>,
                   <<"w", "h", "i", "c", "h">>,
                   <<"l", "i", "s", "t">> }
(* The same without the check that the intent of the matching pattern is   *)
(* one of compare, top, trend, correlation.                                 *)
detect_intent_any_pattern(s) ==
    IF SearchWords(ComparePattern, s) THEN "compare"
    ELSE IF SearchTopPattern(s) THEN "top"
    ELSE IF SearchWords(TrendPattern, s) THEN "trend"
    ELSE IF SearchWords(CorrelationPattern, s) THEN "correlation"
    ELSE IF SearchWords(ProductionPattern, s) THEN "production"
    ELSE IF SearchWords(RainfallPattern, s) THEN "rainfall"
    ELSE IF SearchWords({ <<"d", "i", "s", "t", "r", "i", "c", "t">> }, s) THEN "district"
    ELSE IF \E w \in RetrieveWords : Contains(w, s) THEN "retrieve"
    ELSE "compare"

(* The same with the pattern of 'top' tried before that of 'compare'. *)
detect_intent_top_first(s) ==
    IF SearchTopPattern(s) THEN "top"
    ELSE IF SearchWords(ComparePattern, s) THEN "compare"
    ELSE IF SearchWords(TrendPattern, s) THEN "trend"
    ELSE IF SearchWords(CorrelationPattern, s) THEN "correlation"
    ELSE IF \E w \in RetrieveWords : Contains(w, s) THEN "retrieve"
    ELSE "compare"

detect_intent(s) ==
    IF SearchWords(ComparePattern, s) THEN "compare"
    ELSE IF SearchTopPattern(s) THEN "top"
    ELSE IF SearchWords(TrendPattern, s) THEN "trend"
    ELSE IF SearchWords(CorrelationPattern, s) THEN "correlation"
    ELSE IF \E w \in RetrieveWords : Contains(w, s) THEN "retrieve"
    ELSE "compare"

(* datetime.now().year *)
CurrentYear == 2026

(* re.findall(r'\b(19|20)\d{2}\b', s): the group of each match, that is    *)
(* the first two digits of each four-digit year, left to right.             *)
YearMatchAt(s, i) ==
    /\ BoundaryAt(s, i)
    /\ (StartsAt(<<"1", "9">>, s, i) \/ StartsAt(<<"2", "0">>, s, i))
    /\ i + 3 <= Len(s) /\ s[i + 2] \in DigitSet /\ s[i + 3] \in DigitSet
    /\ BoundaryAt(s, i + 4)
RECURSIVE FindYearGroups(_, _)
FindYearGroups(s, pos) ==
    IF \E i \in pos..Len(s) : YearMatchAt(s, i)
    THEN LET i == CHOOSE j \in pos..Len(s) :
                      YearMatchAt(s, j) /\ \A k \in pos..(j - 1) : ~YearMatchAt(s, k)
         IN <<SubSeq(s, i, i + 1)>> \o FindYearGroups(s, i + 4)
    ELSE <<>>

(* re.search(r'last\s+(\d+)\s+years?', s): the digits of the first match. *)
LastMatchAt(s, i) ==
    /\ StartsAt(<<"l", "a", "s", "t">>, s, i)
    /\ LET a == RunEnd(s, i + 4, Whitespace)
           d == RunEnd(s, a + 1, DigitSet)
           b == RunEnd(s, d + 1, Whitespace)
       IN a >= i + 4 /\ d > a /\ b > d /\ StartsAt(<<"y", "e", "a", "r">>, s, b + 1)
SearchLast(s) ==
    IF \E i \in DOMAIN s : LastMatchAt(s, i)
    THEN LET i == CHOOSE j \in DOMAIN s :
                      LastMatchAt(s, j) /\ \A k \in 1..(j - 1) : ~LastMatchAt(s, k)
             a == RunEnd(s, i + 4, Whitespace) + 1
         IN SubSeq(s, a, RunEnd(s, a, DigitSet))
    ELSE <<>>

(* re.search(r'over (?:the )?(?:last |past )?decade', s) *)
DecadePhrases == { <<"o", "v", "e", "r", " ", "d", "e", "c", "a", "d", "e">>,
                   <<"o", "v", "e", "r", " ", "t", "h", "e", " ", "d", "e", "c", "a", "d", "e">>,
                   <<"o", "v", "e", "r", " ", "l", "a", "s", "t", " ", "d", "e", "c", "a", "d", "e">>,
                   <<"o", "v", "e", "r", " ", "p", "a", "s", "t", " ", "d", "e", "c", "a", "d", "e">>,
                   <<"o", "v", "e", "r", " ", "t", "h", "e", " ", "l", "a", "s", "t", " ", "d", "e", "c", "a", "d", "e">>,
                   <<"o", "v", "e", "r", " ", "t", "h", "e", " ", "p", "a", "s", "t", " ", "d", "e", "c", "a", "d", "e">> }

(* QueryEngine._extract_years: sorted(set(years)), as a set. *)
extract_years(q) ==
    LET s == lower(q)
        groups == FindYearGroups(q, 1)
        explicit == {int(groups[i]) : i \in DOMAIN groups}
        after_last == IF SearchLast(s) # <<>>
                      THEN (CurrentYear - int(SearchLast(s)))..(CurrentYear - 1)
                      ELSE explicit
        after_decade == IF \E w \in DecadePhrases : Contains(w, s)
                        THEN (CurrentYear - 10)..(CurrentYear - 1)
                        ELSE after_last
    IN IF after_decade = {} THEN (CurrentYear - 5)..(CurrentYear - 1) ELSE after_decade

(* re.findall(r'(\w+)\s+district', q, re.IGNORECASE): the word before each *)
(* match of 'district', left to right.                                      *)
District == <<"d", "i", "s", "t", "r", "i", "c", "t">>
DistrictMatchAt(s, i) ==
    /\ IsWordAt(s, i)
    /\ LET e == RunEnd(s, i, WordChars)
           w == RunEnd(s, e + 1, Whitespace)
       IN w > e /\ StartsAt(District, lower(s), w + 1)
RECURSIVE extract_districts_from(_, _)
extract_districts_from(s, pos) ==
    IF \E i \in pos..Len(s) : DistrictMatchAt(s, i)
    THEN LET i == CHOOSE j \in pos..Len(s) :
                      DistrictMatchAt(s, j) /\ \A k \in pos..(j - 1) : ~DistrictMatchAt(s, k)
             e == RunEnd(s, i, WordChars)
             w == RunEnd(s, e + 1, Whitespace)
         IN <<SubSeq(s, i, e)>> \o extract_districts_from(s, w + 1 + Len(District))
    ELSE <<>>

(* QueryEngine._extract_districts *)
extract_districts(q) == extract_districts_from(q, 1)

(* QueryEngine._parse_query *)
parse_query(q) ==
    LET query_lower == lower(q)
        metrics == (IF SearchWords(RainfallPattern, query_lower) THEN <<"rainfall">> ELSE <<>>)
                   \o (IF SearchWords(ProductionPattern, query_lower)
                       THEN <<"production">> ELSE <<>>)
    IN [original_query |-> q,
        intent |-> detect_intent(query_lower),
        states |-> extract_states(q),
        crops |-> extract_crops(q),
        years |-> extract_years(q),
        top_n |-> extract_top_n(q),
        districts |-> extract_districts(q),
        metrics |-> IF metrics # <<>> THEN metrics ELSE <<"production", "rainfall">>]

(* The queries of the model: up to MaxWords words of the vocabulary, and    *)
(* the entity queries (two state names and a crop name, in any order) with  *)
(* one word more, joined by single spaces.                                  *)
MaxWords == 3

Vocabulary ==
    { <<"P", "u", "n", "j", "a", "b">>,
      <<"h", "a", "r", "y", "a", "n", "a">>,
      <<"r", "i", "c", "e">>,
      <<"a", "s">>,
      <<"T", "o", "p">>,
      <<"3">>,
      <<"1", "0">>,
      <<"b", "e", "s", "t">> }

(* The states and crops (indices in the Config lists) each word names, and  *)
(* those that are words of ws.                                              *)
StateIndex ==
    [w \in Vocabulary |-> {i \in DOMAIN INDIAN_STATES : lower(w) = lower(INDIAN_STATES[i])}]
CropIndex ==
    [w \in Vocabulary |-> {i \in DOMAIN MAJOR_CROPS : lower(w) = lower(MAJOR_CROPS[i])}]
StateWordsIn(ws) == UNION {StateIndex[ws[k]] : k \in DOMAIN ws}
CropWordsIn(ws) == UNION {CropIndex[ws[k]] : k \in DOMAIN ws}
IsEntityQuery(ws) == Cardinality(StateWordsIn(ws)) = 2 /\ Cardinality(CropWordsIn(ws)) = 1

RECURSIVE Join(_)
Join(ws) == IF ws = <<>> THEN <<>>
            ELSE IF Len(ws) = 1 THEN ws[1]
            ELSE ws[1] \o <<" ">> \o Join(Tail(ws))

WordSeqs ==
    UNION {[1..n -> Vocabulary] : n \in 1..MaxWords}
    \cup {ws \in [1..(MaxWords + 1) -> Vocabulary] : IsEntityQuery(ws)}

NotParsed == [intent |-> "none"]

(* The state of a DataFetcher that has not been used. *)
FetcherIdle ==
    /\ cache = <<>>
    /\ now = 0
    /\ request_times = <<>>
    /\ http_requests = 0
    /\ calls = 0
    /\ ticks = 0
    /\ origin = <<>>
    /\ last = NoCall

AnalyticsIdle ==
    /\ data_results = <<>>
    /\ rounding = 0
    /\ analysis = <<>>
    /\ env = <<>>
    /\ raised = <<>>
    /\ lineage = <<>>
    /\ response = <<>>

InitParse ==
    /\ api_key_set = FALSE
    /\ hash_seed = 0
    /\ FetcherIdle
    /\ AnalyticsIdle
    /\ words \in WordSeqs
    /\ query = Join(words)
    /\ parsed = NotParsed

(* QueryEngine._parse_query(query) *)
ParseQuery ==
    /\ parsed = NotParsed
    /\ parsed' = parse_query(query)
    /\ UNCHANGED <<query, words>>
    /\ UNCHANGED fetch_vars
    /\ UNCHANGED <<data_results, rounding, analysis, env, raised, response, lineage>>

NextParse == ParseQuery

SpecParse == InitParse /\ [][NextParse]_vars

(* Queries that name years. *)
YearVocabulary ==
    { <<"2", "0", "1", "5">>,
      <<"2", "0", "2", "0">>,
      <<"1", "9", "9", "9">>,
      <<"2", "0", "1", "5", "-", "2", "0", "2", "0">>,
      <<"r", "i", "c", "e">>,
      <<"P", "u", "n", "j", "a", "b">> }

YearWordSeqs == UNION {[1..n -> YearVocabulary] : n \in 1..MaxWords}

InitYears ==
    /\ api_key_set = FALSE
    /\ hash_seed = 0
    /\ FetcherIdle
    /\ AnalyticsIdle
    /\ words \in YearWordSeqs
    /\ query = Join(words)
    /\ parsed = NotParsed

SpecYears == InitYears /\ [][NextParse]_vars


-----------------------------------------------------------------------------
(* The analytics engine (src/analytics.py).                                 *)
(*                                                                          *)
(* A DataFrame is its set of column names with its rows, a row a record of  *)
(* its cells.  data_results is the dict the query engine hands over, held   *)
(* as the sequence of its <<key, value>> items.  Cell values are natural    *)
(* numbers; the floats computed from them are exact fractions.              *)

(* pd.DataFrame(records) and pd.DataFrame() *)
DataFrame(records) ==
    [columns |-> UNION {DOMAIN records[i] : i \in DOMAIN records}, rows |-> records]
EmptyFrame == [columns |-> {}, rows |-> <<>>]

(* df.empty *)
empty(df) == df.rows = <<>> \/ df.columns = {}

(* The keys of data_results: 'rainfall', 'production', f'district_{state}'. *)
DataKey(name) == [dataset |-> name, state |-> ""]
DistrictKey(state) == [dataset |-> "district", state |-> state]

RECURSIVE GCD(_, _)
GCD(a, b) == IF b = 0 THEN a ELSE GCD(b, a % b)

Abs(n) == IF n < 0 THEN -n ELSE n

(* The float n / d (d > 0), as a fraction in lowest terms. *)
Rat(n, d) ==
    LET g == GCD(Abs(n), d)
    IN [kind |-> "finite", num |-> n \div g, den |-> d \div g]
Infinity == [kind |-> "inf", num |-> 0, den |-> 1]
NaN == [kind |-> "nan", num |-> 0, den |-> 1]

RatAdd(a, b) == Rat(a.num * b.den + b.num * a.den, a.den * b.den)

RECURSIVE RatSum(_)
RatSum(xs) == IF xs = <<>> THEN Rat(0, 1) ELSE RatAdd(Head(xs), RatSum(Tail(xs)))

RECURSIVE IntSum(_)
IntSum(xs) == IF xs = <<>> THEN 0 ELSE Head(xs) + IntSum(Tail(xs))

(* sorted(S) for a set of integers *)
RECURSIVE SortedSeq(_)
SortedSeq(S) ==
    IF S = {} THEN <<>>
    ELSE LET least == CHOOSE x \in S : \A y \in S : x <= y
         IN <<least>> \o SortedSeq(S \ {least})

(* The cells of the column in the rows of the year. *)
CellsOf(df, year, column) ==
    LET rs == SelectSeq(df.rows, LAMBDA r : r.year = year)
    IN [i \in DOMAIN rs |-> rs[i][column]]

(* df.groupby('year')[column].sum().sort_index() and                        *)
(* df.groupby('year')[column].mean().sort_index(): the years in ascending   *)
(* order, each with its value.                                              *)
GroupYears(df) == SortedSeq({df.rows[i].year : i \in DOMAIN df.rows})
yearly_sum(df, column) ==
    LET years == GroupYears(df)
    IN [i \in DOMAIN years |->
          [year |-> years[i], value |-> Rat(IntSum(CellsOf(df, years[i], column)), 1)]]
yearly_mean(df, column) ==
    LET years == GroupYears(df)
    IN [i \in DOMAIN years |->
          [year |-> years[i],
           value |-> Rat(IntSum(CellsOf(df, years[i], column)),
                         Len(CellsOf(df, years[i], column)))]]

(* series.pct_change() * 100 for non-negative values: an entry is          *)
(* (cur / prev - 1) * 100, inf for a rise from 0, NaN for 0 / 0 and for    *)
(* the first year.                                                          *)
pct_change(series) ==
    LET PctChange(prev, cur) ==
            IF prev.num = 0
            THEN (IF cur.num = 0 THEN NaN ELSE Infinity)
            ELSE Rat(100 * (cur.num * prev.den - prev.num * cur.den), prev.num * cur.den)
    IN [i \in DOMAIN series |->
           IF i = 1 THEN NaN ELSE PctChange(series[i - 1].value, series[i].value)]

(* Series.mean(): the NaN entries are skipped. *)
mean(xs) ==
    LET ys == SelectSeq(xs, LAMBDA x : x.kind # "nan")
        s == RatSum(SelectSeq(ys, LAMBDA x : x.kind = "finite"))
    IN IF ys = <<>> THEN NaN
       ELSE IF \E i \in DOMAIN ys : ys[i].kind = "inf" THEN Infinity
       ELSE Rat(s.num, s.den * Len(ys))

(* A float: the fraction it stands for and the direction (-1, 0, 1) in      *)
(* which the floating-point computation left it off that fraction.          *)
Float(x, round) == [kind |-> x.kind, num |-> x.num, den |-> x.den, round |-> round]

(* x > t and x < t for a float x and an integer t *)
Gt(x, t) ==
    \/ x.kind = "inf"
    \/ x.kind = "finite" /\ (x.num > t * x.den \/ (x.num = t * x.den /\ x.round > 0))
Lt(x, t) ==
    x.kind = "finite" /\ (x.num < t * x.den \/ (x.num = t * x.den /\ x.round < 0))

RECURSIVE IsPowerOfTwo(_)
IsPowerOfTwo(d) == d = 1 \/ (d % 2 = 0 /\ IsPowerOfTwo(d \div 2))

(* The computation of the mean growth of the series is exact in binary      *)
(* floating point: every value, every ratio of successive values and the    *)
(* mean itself is a binary fraction.                                        *)
IsExact(series) ==
    /\ \A i \in DOMAIN series : IsPowerOfTwo(series[i].value.den)
    /\ \A i \in 2..Len(series) :
          series[i - 1].value.num # 0 =>
              IsPowerOfTwo(Rat(series[i].value.num * series[i - 1].value.den,
                               series[i - 1].value.num * series[i].value.den).den)
    /\ IsPowerOfTwo(mean(pct_change(series)).den)

(* AnalyticsEngine._calculate_confidence, in hundredths. *)
calculate_confidence(data_points) ==
    IF data_points = 0 THEN 0
    ELSE IF data_points < 10 THEN 50
    ELSE IF data_points < 50 THEN 70
    ELSE IF data_points < 100 THEN 85
    ELSE 95

(* A KeyError raised by the lookup of a column the frame does not have. *)
KeyError(column) == [raises |-> TRUE, error |-> "'" \o column \o "'"]

(* 'key' in data_results and data_results['key']['dataframe'] *)
HasData(d, name) == DictHas(d, DataKey(name))
FrameOf(d, name) == DictGet(d, DataKey(name), <<>>).dataframe

(* The production thresholds with the comparisons inclusive. *)
production_direction_inclusive(avg_growth) ==
    IF Gt(avg_growth, 2) \/ (avg_growth.kind = "finite" /\ avg_growth.num = 2 * avg_growth.den
                              /\ avg_growth.round = 0)
    THEN "increasing"
    ELSE IF Lt(avg_growth, -2) \/ (avg_growth.kind = "finite"
                                   /\ avg_growth.num = -2 * avg_growth.den
                                   /\ avg_growth.round = 0)
    THEN "decreasing"
    ELSE "stable"

(* trend_analysis: the direction of a production trend. *)
production_direction(avg_growth) ==
    IF Gt(avg_growth, 2) THEN "increasing"
    ELSE IF Lt(avg_growth, -2) THEN "decreasing"
    ELSE "stable"

(* trend_analysis: the direction of a rainfall trend. *)
rainfall_direction(avg_growth) ==
    IF Gt(avg_growth, 1) THEN "increasing"
    ELSE IF Lt(avg_growth, -1) THEN "decreasing"
    ELSE "stable"

(* The choice of the dataset with the rainfall branch tested first. *)
TrendDataset_rainfall_first(d) ==
    IF HasData(d, "rainfall") THEN "rainfall"
    ELSE IF HasData(d, "production") THEN "production"
    ELSE "none"

(* The series trend_analysis looks at: the yearly production totals if      *)
(* there is a production dataset, else the yearly rainfall means; empty if  *)
(* the dataset is empty or has no 'year' column.                            *)
TrendDataset(d) ==
    IF HasData(d, "production") THEN "production"
    ELSE IF HasData(d, "rainfall") THEN "rainfall"
    ELSE "none"

TrendColumn(d) ==
    IF TrendDataset(d) = "production" THEN "production_tonnes" ELSE "annual_rainfall_mm"

TrendUsable(d) ==
    /\ TrendDataset(d) # "none"
    /\ ~empty(FrameOf(d, TrendDataset(d)))
    /\ "year" \in FrameOf(d, TrendDataset(d)).columns
TrendSeries(d) ==
    IF TrendDataset(d) = "production"
    THEN yearly_sum(FrameOf(d, "production"), "production_tonnes")
    ELSE yearly_mean(FrameOf(d, "rainfall"), "annual_rainfall_mm")

(* The directions the floating-point mean growth of the series can be off   *)
(* its exact value.                                                         *)
Roundings(d) ==
    IF TrendUsable(d) /\ TrendColumn(d) \in FrameOf(d, TrendDataset(d)).columns
       /\ Len(TrendSeries(d)) > 1 /\ ~IsExact(TrendSeries(d))
    THEN {-1, 0, 1}
    ELSE {0}

(* AnalyticsEngine.trend_analysis *)
trend_analysis(parsed_query, d, round) ==
    LET name == TrendDataset(d)
        df == FrameOf(d, name)
        series == TrendSeries(d)
        avg_growth == Float(mean(pct_change(series)), round)
        direction == IF name = "production" THEN production_direction(avg_growth)
                     ELSE rainfall_direction(avg_growth)
        found == TrendUsable(d) /\ Len(series) > 1
        trend_summary ==
            IF found
            THEN [direction |-> direction,
                  growth_rate |-> avg_growth,
                  start_year |-> series[1].year,
                  end_year |-> series[Len(series)].year,
                  start_value |-> series[1].value,
                  end_value |-> series[Len(series)].value,
                  yearly_data |-> series]
            ELSE <<>>
        data_points == IF found THEN Len(df.rows) ELSE 0
    IN IF TrendUsable(d) /\ TrendColumn(d) \notin df.columns
       THEN KeyError(TrendColumn(d))
       ELSE [raises |-> FALSE,
             trend_summary |-> trend_summary,
             data |-> d,
             confidence |-> calculate_confidence(data_points),
             data_points |-> data_points]

(* pd.merge(rainfall_df, production_df, on=['state', 'year'], how='inner'): *)
(* the pairs of rows that agree on state and year.                          *)
merge(rainfall_df, production_df) ==
    Flatten([i \in DOMAIN rainfall_df.rows |->
        LET r == rainfall_df.rows[i]
            ps == SelectSeq(production_df.rows,
                            LAMBDA p : p.state = r.state /\ p.year = r.year)
        IN [j \in DOMAIN ps |-> <<r, ps[j]>>]])

(* The threshold met by five joined rows. *)
enough_to_correlate_inclusive(merged) == Len(merged) >= 5

(* correlation_analysis: len(merged) > 5 *)
enough_to_correlate(merged) == Len(merged) > 5

(* AnalyticsEngine.correlation_analysis.  The coefficient and its p-value   *)
(* are left out of correlation_results.                                     *)
correlation_analysis(parsed_query, d) ==
    LET rainfall_df == FrameOf(d, "rainfall")
        production_df == FrameOf(d, "production")
        joinable == /\ HasData(d, "rainfall") /\ HasData(d, "production")
                    /\ ~empty(rainfall_df) /\ ~empty(production_df)
                    /\ "year" \in rainfall_df.columns /\ "year" \in production_df.columns
        merged == merge(rainfall_df, production_df)
        found == joinable /\ enough_to_correlate(merged)
        data_points == IF found THEN Len(merged) ELSE 0
    IN IF joinable /\ ("state" \notin rainfall_df.columns
                       \/ "state" \notin production_df.columns)
       THEN KeyError("state")
       ELSE IF found /\ "annual_rainfall_mm" \notin rainfall_df.columns
       THEN KeyError("annual_rainfall_mm")
       ELSE IF found /\ "production_tonnes" \notin production_df.columns
       THEN KeyError("production_tonnes")
       ELSE [raises |-> FALSE,
             correlation_results |-> IF found THEN [sample_size |-> Len(merged)] ELSE <<>>,
             data |-> d,
             confidence |-> calculate_confidence(data_points),
             data_points |-> data_points]

(* DataFetcher.get_source_citation: the parameters and the time are left    *)
(* out.                                                                     *)
get_source_citation(endpoint_name) ==
    [name |-> IF endpoint_name \in API_ENDPOINTS THEN <<"name of", endpoint_name>>
              ELSE <<endpoint_name>>,
     endpoint |-> endpoint_name,
     url |-> IF ~is_demo_mode THEN get_api_url(endpoint_name).url
             ELSE <<"demo://", endpoint_name>>,
     source |-> "data.gov.in Open Government Data Platform"]

(* One item of data_results. *)
Dataset(name, endpoint_name, df) ==
    <<DataKey(name), [dataframe |-> df, source |-> get_source_citation(endpoint_name)]>>
RainfallData(df) == Dataset("rainfall", "imd_rainfall", df)
ProductionData(df) == Dataset("production", "agriculture_production", df)

(* The tables of the model: up to MaxRainfallRows rainfall rows and up to   *)
(* MaxProductionRows production rows.  The trend tables are of one state    *)
(* over three years, with values around the thresholds and 0; the tables    *)
(* to correlate have rows of three (state, year) pairs.                     *)
MaxRainfallRows == 3
MaxProductionRows == 3

TrendYears == {2019, 2020, 2021}
TrendValues == {0, 98, 100}
JoinKeys == { <<"Punjab", 2019>>, <<"Punjab", 2020>>, <<"Haryana", 2019>> }

RainfallRow(s, y, v) == [state |-> s, year |-> y, annual_rainfall_mm |-> v]
ProductionRow(s, y, v) == [state |-> s, crop |-> "Rice", year |-> y, production_tonnes |-> v]

RowSeqs(rows, n) == UNION {[1..k -> rows] : k \in 1..n}

RainfallTrendTables ==
    RowSeqs({RainfallRow("Punjab", y, v) : y \in TrendYears, v \in TrendValues},
            MaxRainfallRows)
ProductionTrendTables ==
    RowSeqs({ProductionRow("Punjab", y, v) : y \in TrendYears, v \in TrendValues},
            MaxProductionRows)
RainfallJoinTables ==
    RowSeqs({RainfallRow(k[1], k[2], 100) : k \in JoinKeys}, MaxRainfallRows)
ProductionJoinTables ==
    RowSeqs({ProductionRow(k[1], k[2], 100) : k \in JoinKeys}, MaxProductionRows)

(* Twenty-six years at the value v with w in the last year: the mean        *)
(* growth is (w / v - 1) * 100 / 25, exact for the pairs given.             *)
LongYears == 26
LongSeries(v, w) == [i \in 1..LongYears |-> IF i < LongYears THEN v ELSE w]
LongPairs == { <<2, 3>>, <<4, 5>>, <<4, 2>>, <<4, 3>> }
RainfallLongTables ==
    {[i \in 1..LongYears |-> RainfallRow("Punjab", 1999 + i, LongSeries(p[1], p[2])[i])] :
        p \in LongPairs}
ProductionLongTables ==
    {[i \in 1..LongYears |-> ProductionRow("Punjab", 1999 + i, LongSeries(p[1], p[2])[i])] :
        p \in LongPairs}

(* The table without one of its columns. *)
Without(rows, column) ==
    [i \in DOMAIN rows |-> [k \in DOMAIN rows[i] \ {column} |-> rows[i][k]]]

IncompleteRainfall ==
    LET rows == <<RainfallRow("Punjab", 2019, 100), RainfallRow("Punjab", 2020, 102)>>
    IN {Without(rows, c) : c \in {"year", "state", "annual_rainfall_mm"}}
IncompleteProduction ==
    LET rows == <<ProductionRow("Punjab", 2019, 100), ProductionRow("Punjab", 2020, 102)>>
    IN {Without(rows, c) : c \in {"year", "state", "production_tonnes"}}

AnalyticsInputs ==
    { <<>> }
    \cup { <<RainfallData(EmptyFrame)>>, <<ProductionData(EmptyFrame)>> }
    \cup { <<RainfallData(DataFrame(r))>> :
             r \in RainfallTrendTables \cup RainfallLongTables \cup IncompleteRainfall }
    \cup { <<ProductionData(DataFrame(p))>> :
             p \in ProductionTrendTables \cup ProductionLongTables \cup IncompleteProduction }
    \cup { <<RainfallData(DataFrame(r)), ProductionData(DataFrame(p))>> :
             r \in RainfallJoinTables \cup IncompleteRainfall,
             p \in ProductionJoinTables \cup IncompleteProduction }
    \cup { <<RainfallData(EmptyFrame), ProductionData(DataFrame(p))>> :
             p \in IncompleteProduction }
    \cup { <<RainfallData(DataFrame(r)), ProductionData(EmptyFrame)>> :
             r \in IncompleteRainfall }

NotAnalysed == <<>>

InitAnalytics ==
    /\ api_key_set = FALSE
    /\ hash_seed = 0
    /\ FetcherIdle
    /\ query = <<>>
    /\ words = <<>>
    /\ parsed = NotParsed
    /\ data_results \in AnalyticsInputs
    /\ rounding = 0
    /\ analysis = NotAnalysed
    /\ env = <<>>
    /\ raised = <<>>
    /\ lineage = <<>>
    /\ response = <<>>

(* AnalyticsEngine.trend_analysis(parsed_query, data_results) *)
TrendAnalysis ==
    /\ analysis = NotAnalysed
    /\ \E round \in Roundings(data_results) :
         /\ rounding' = round
         /\ analysis' = [routine |-> "trend_analysis",
                         result |-> trend_analysis(parsed, data_results, round)]
    /\ UNCHANGED <<data_results, env, raised, response, lineage>>
    /\ UNCHANGED <<query, words, parsed>>
    /\ UNCHANGED fetch_vars

(* AnalyticsEngine.correlation_analysis(parsed_query, data_results) *)
CorrelationAnalysis ==
    /\ analysis = NotAnalysed
    /\ analysis' = [routine |-> "correlation_analysis",
                    result |-> correlation_analysis(parsed, data_results)]
    /\ UNCHANGED <<data_results, rounding, env, raised, response, lineage>>
    /\ UNCHANGED <<query, words, parsed>>
    /\ UNCHANGED fetch_vars

NextAnalytics == TrendAnalysis \/ CorrelationAnalysis

SpecAnalytics == InitAnalytics /\ [][NextAnalytics]_vars

(* The names of the model in the order sorted() and groupby() give them. *)
NameOrder == <<"Cotton", "Haryana", "Maharashtra", "Maize", "Potato", "Punjab", "Rice",
               "Sugarcane", "Wheat">>
SortedNames(S) == SelectSeq(NameOrder, LAMBDA n : n \in S)

RatLess(a, b) == a.num * b.den < b.num * a.den

(* The rows of the table with the value in the column. *)
RowsWith(df, column, value) == SelectSeq(df.rows, LAMBDA r : r[column] = value)
ColumnOf(rows, column) == [i \in DOMAIN rows |-> rows[i][column]]
ColumnValues(df, column) == {df.rows[i][column] : i \in DOMAIN df.rows}

(* df.groupby(by)[column].sum() and .mean(): the groups in key order, each  *)
(* a name with its value.                                                   *)
group_sum(df, by, column) ==
    LET keys == SortedNames(ColumnValues(df, by))
    IN [i \in DOMAIN keys |->
          [name |-> keys[i],
           value |-> Rat(IntSum(ColumnOf(RowsWith(df, by, keys[i]), column)), 1)]]
group_mean(df, by, column) ==
    LET keys == SortedNames(ColumnValues(df, by))
    IN [i \in DOMAIN keys |->
          [name |-> keys[i],
           value |-> Rat(IntSum(ColumnOf(RowsWith(df, by, keys[i]), column)),
                         Len(RowsWith(df, by, keys[i])))]]

(* series.sort_values(ascending=False): the largest value first, equal      *)
(* values in the order they had.                                            *)
RECURSIVE sort_values_descending(_)
sort_values_descending(series) ==
    IF series = <<>> THEN <<>>
    ELSE LET first == CHOOSE i \in DOMAIN series :
                         /\ \A j \in DOMAIN series : ~RatLess(series[i].value, series[j].value)
                         /\ \A j \in 1..(i - 1) : RatLess(series[j].value, series[i].value)
         IN <<series[first]>>
            \o sort_values_descending(SubSeq(series, 1, first - 1)
                                      \o SubSeq(series, first + 1, Len(series)))

(* series.head(n + 1) *)
head_one_more(series, n) ==
    SubSeq(series, 1, IF n + 1 < Len(series) THEN n + 1 ELSE Len(series))

(* series.head(n) *)
head(series, n) == SubSeq(series, 1, IF n < Len(series) THEN n ELSE Len(series))

(* series.unique(): the values in the order of their first appearance. *)
RECURSIVE unique(_)
unique(xs) ==
    IF xs = <<>> THEN <<>>
    ELSE <<Head(xs)>> \o unique(SelectSeq(Tail(xs), LAMBDA x : x # Head(xs)))

(* The first of the columns that the table lacks, if any. *)
MissingColumn(df, columns) ==
    LET missing == SelectSeq(columns, LAMBDA c : c \notin df.columns)
    IN IF missing = <<>> THEN "" ELSE missing[1]

(* AnalyticsEngine.compare_analysis *)
compare_analysis(parsed_query, d) ==
    LET rainfall_df == FrameOf(d, "rainfall")
        production_df == FrameOf(d, "production")
        with_rainfall == HasData(d, "rainfall") /\ ~empty(rainfall_df)
        with_production == HasData(d, "production") /\ ~empty(production_df)
        rainfall_missing == MissingColumn(rainfall_df, <<"state", "annual_rainfall_mm">>)
        production_missing ==
            MissingColumn(production_df, <<"state", "crop", "production_tonnes">>)
        states == unique(ColumnOf(production_df.rows, "state"))
        crop_summary ==
            [i \in DOMAIN states |->
                [state |-> states[i],
                 crops |-> head(sort_values_descending(
                              group_sum([production_df EXCEPT
                                            !.rows = RowsWith(production_df, "state", states[i])],
                                        "crop", "production_tonnes")), 5)]]
        keys == (IF with_rainfall THEN {"rainfall_comparison"} ELSE {})
                \cup (IF with_production THEN {"crop_comparison"} ELSE {})
        summary == [k \in keys |->
                       IF k = "rainfall_comparison"
                       THEN group_mean(rainfall_df, "state", "annual_rainfall_mm")
                       ELSE crop_summary]
        data_points == (IF with_rainfall THEN Len(rainfall_df.rows) ELSE 0)
                       + (IF with_production THEN Len(production_df.rows) ELSE 0)
    IN IF with_rainfall /\ rainfall_missing # "" THEN KeyError(rainfall_missing)
       ELSE IF with_production /\ production_missing # "" THEN KeyError(production_missing)
       ELSE [raises |-> FALSE,
             summary |-> summary,
             data |-> d,
             confidence |-> calculate_confidence(data_points),
             data_points |-> data_points]

(* AnalyticsEngine.top_n_analysis *)
top_n_analysis(parsed_query, d) ==
    LET top_n == parsed_query.top_n
        name == IF HasData(d, "production") THEN "production"
                ELSE IF HasData(d, "rainfall") THEN "rainfall" ELSE "none"
        df == FrameOf(d, name)
        used == name # "none" /\ ~empty(df)
        missing == IF name = "production"
                   THEN MissingColumn(df, <<"crop", "production_tonnes">>)
                   ELSE MissingColumn(df, <<"state", "annual_rainfall_mm">>)
        ranking == IF name = "production"
                   THEN sort_values_descending(group_sum(df, "crop", "production_tonnes"))
                   ELSE sort_values_descending(group_mean(df, "state", "annual_rainfall_mm"))
        top_results ==
            IF used
            THEN [i \in DOMAIN head(ranking, top_n) |->
                     [name |-> ranking[i].name, value |-> ranking[i].value,
                      unit |-> IF name = "production" THEN "tonnes" ELSE "mm"]]
            ELSE <<>>
        data_points == IF used THEN Len(df.rows) ELSE 0
    IN IF used /\ missing # "" THEN KeyError(missing)
       ELSE [raises |-> FALSE,
             top_results |-> top_results,
             data |-> d,
             confidence |-> calculate_confidence(data_points),
             data_points |-> data_points]

(* AnalyticsEngine.general_analysis: the statistics and the sample rows    *)
(* are left out of the summary of a dataset.                               *)
general_analysis(parsed_query, d) ==
    LET used == SelectSeq(d, LAMBDA item : ~empty(item[2].dataframe))
        summary == [i \in DOMAIN used |->
                       <<used[i][1],
                         [record_count |-> Len(used[i][2].dataframe.rows),
                          columns |-> used[i][2].dataframe.columns]>>]
        data_points == IntSum([i \in DOMAIN used |-> Len(used[i][2].dataframe.rows)])
    IN [raises |-> FALSE,
        summary |-> summary,
        data |-> d,
        confidence |-> calculate_confidence(data_points),
        data_points |-> data_points]

(* QueryEngine._analyze_data: the routine of the intent and what it gives. *)
analyze_data(parsed_query, d, round) ==
    IF parsed_query.intent = "compare"
    THEN [routine |-> "compare_analysis", result |-> compare_analysis(parsed_query, d)]
    ELSE IF parsed_query.intent = "top"
    THEN [routine |-> "top_n_analysis", result |-> top_n_analysis(parsed_query, d)]
    ELSE IF parsed_query.intent = "trend"
    THEN [routine |-> "trend_analysis", result |-> trend_analysis(parsed_query, d, round)]
    ELSE IF parsed_query.intent = "correlation"
    THEN [routine |-> "correlation_analysis",
          result |-> correlation_analysis(parsed_query, d)]
    ELSE [routine |-> "general_analysis", result |-> general_analysis(parsed_query, d)]

(* The visualizer (src/visualizer.py).  A chart is its title, without the   *)
(* numbers in it.                                                           *)

(* What a routine of the visualizer gives: the charts, or an exception. *)
Charts(charts) == [raises |-> FALSE, charts |-> charts]

(* Visualizer._create_comparison_charts *)
create_comparison_charts(parsed_query, analysis_results) ==
    LET summary == Get(analysis_results, "summary", <<>>)
    IN Charts((IF "rainfall_comparison" \in DOMAIN summary
               THEN <<"Average Annual Rainfall Comparison">> ELSE <<>>)
              \o (IF "crop_comparison" \in DOMAIN summary
                  THEN <<"Top Crop Production by State">> ELSE <<>>))

(* Visualizer._create_ranking_charts *)
create_ranking_charts(parsed_query, analysis_results) ==
    Charts(IF "top_results" \in DOMAIN analysis_results
           THEN <<"Top Rankings", "Distribution - Top">> ELSE <<>>)

(* Visualizer._create_trend_charts *)
create_trend_charts(parsed_query, analysis_results) ==
    Charts(IF "trend_summary" \in DOMAIN analysis_results
              /\ "yearly_data" \in DOMAIN analysis_results.trend_summary
           THEN <<"Trend Analysis">> ELSE <<>>)

(* Visualizer._create_correlation_charts: the merge fails on a table       *)
(* without the join columns, and the title on a result without the         *)
(* coefficient.                                                            *)
create_correlation_charts(parsed_query, analysis_results) ==
    LET d == Get(analysis_results, "data", <<>>)
        rainfall_df == FrameOf(d, "rainfall")
        production_df == FrameOf(d, "production")
        missing == IF MissingColumn(rainfall_df, <<"state", "year">>) # ""
                   THEN MissingColumn(rainfall_df, <<"state", "year">>)
                   ELSE MissingColumn(production_df, <<"state", "year">>)
    IN IF ~("correlation_results" \in DOMAIN analysis_results
            /\ HasData(d, "rainfall") /\ HasData(d, "production"))
       THEN Charts(<<>>)
       ELSE IF missing # "" THEN KeyError(missing)
       ELSE IF merge(rainfall_df, production_df) = <<>> THEN Charts(<<>>)
       ELSE IF analysis_results.correlation_results = <<>>
       THEN KeyError("correlation_coefficient")
       ELSE Charts(<<"Rainfall vs Production Correlation">>)

(* Visualizer._create_general_charts: one chart for each dataset with rows, *)
(* a numeric column and a text column.                                      *)
create_general_charts(parsed_query, analysis_results) ==
    LET NumericColumns == {"year", "annual_rainfall_mm", "production_tonnes"}
        ObjectColumns == {"state", "crop", "district"}
        d == Get(analysis_results, "data", <<>>)
        charted == SelectSeq(d, LAMBDA item :
                       /\ ~empty(item[2].dataframe)
                       /\ item[2].dataframe.columns \cap NumericColumns # {}
                       /\ item[2].dataframe.columns \cap ObjectColumns # {})
    IN Charts([i \in DOMAIN charted |-> "Overview"])

(* Visualizer.create_visualizations: the routine of the intent. *)
chart_routine(parsed_query, analysis_results) ==
    IF parsed_query.intent = "compare"
    THEN create_comparison_charts(parsed_query, analysis_results)
    ELSE IF parsed_query.intent = "top"
    THEN create_ranking_charts(parsed_query, analysis_results)
    ELSE IF parsed_query.intent = "trend"
    THEN create_trend_charts(parsed_query, analysis_results)
    ELSE IF parsed_query.intent = "correlation"
    THEN create_correlation_charts(parsed_query, analysis_results)
    ELSE create_general_charts(parsed_query, analysis_results)

(* Visualizer.create_visualizations: an exception of the routine is logged  *)
(* and the list, still empty, returned.                                     *)
create_visualizations(parsed_query, analysis_results) ==
    IF chart_routine(parsed_query, analysis_results).raises
    THEN <<>>
    ELSE chart_routine(parsed_query, analysis_results).charts

(* The answer texts.  An answer is the sequence of its lines, without the   *)
(* numbers in them.                                                         *)
Answer(lines) == [raises |-> FALSE, answer |-> lines]

(* QueryEngine._generate_comparison_answer *)
generate_comparison_answer(parsed_query, analysis_results) ==
    LET summary == Get(analysis_results, "summary", <<>>)
    IN IF ~Truthy(summary)
       THEN Answer(<<"I found limited data for this comparison. Please try a different query.">>)
       ELSE Answer(<<"Based on the analysis of data from data.gov.in:">>
                   \o (IF "rainfall_comparison" \in DOMAIN summary
                       THEN <<"**Rainfall Comparison:**">>
                            \o [i \in DOMAIN summary.rainfall_comparison |->
                                   "- " \o summary.rainfall_comparison[i].name]
                       ELSE <<>>)
                   \o (IF "crop_comparison" \in DOMAIN summary
                       THEN <<"**Top Crops by State:**">>
                            \o Flatten([i \in DOMAIN summary.crop_comparison |->
                                   <<"*" \o summary.crop_comparison[i].state \o ":*">>
                                   \o [j \in DOMAIN head(summary.crop_comparison[i].crops, 3) |->
                                          summary.crop_comparison[i].crops[j].name]])
                       ELSE <<>>))

(* QueryEngine._generate_top_n_answer *)
generate_top_n_answer(parsed_query, analysis_results) ==
    LET top_results == Get(analysis_results, "top_results", <<>>)
    IN IF top_results = <<>>
       THEN Answer(<<"No data available for top " \o ToString(parsed_query.top_n)
                     \o " analysis.">>)
       ELSE Answer(<<"**Top " \o ToString(parsed_query.top_n) \o " Results:**">>
                   \o [i \in DOMAIN head(top_results, parsed_query.top_n) |->
                          ToString(i) \o ". " \o top_results[i].name \o " "
                          \o top_results[i].unit])

(* QueryEngine._generate_trend_answer *)
generate_trend_answer(parsed_query, analysis_results) ==
    LET trend == Get(analysis_results, "trend_summary", <<>>)
    IN IF ~Truthy(trend)
       THEN Answer(<<"Insufficient data for trend analysis.">>)
       ELSE Answer(<<"**Trend Analysis:**",
                     "- Overall trend: " \o trend.direction,
                     "- Average growth rate",
                     "- Period covered: " \o ToString(trend.start_year) \o " to "
                        \o ToString(trend.end_year)>>)

(* QueryEngine._generate_general_answer: the lines of one dataset of the    *)
(* summary; the sample rows cannot be formatted if a value in them is text. *)
generate_general_answer(parsed_query, analysis_results, text_cells) ==
    LET summary == Get(analysis_results, "summary", <<>>)
        general_lines(key) ==
            IF key.dataset = "rainfall"
            THEN <<"**Rainfall Information:**", "**Recent Data Points:**">>
            ELSE IF key.dataset = "production"
            THEN <<"**Crop Production Information:**", "**Top Production Records:**">>
            ELSE <<"**District-wise Data**", "**Top Districts:**">>
        FormatError ==
            [raises |-> TRUE, error |-> "Unknown format code 'f' for object of type 'str'"]
    IN IF summary = <<>>
       THEN Answer(<<"I found some data but couldn't generate a comprehensive answer. Please refine your query.">>)
       ELSE IF text_cells THEN FormatError
       ELSE Answer(<<"**Analysis Results:**">>
                   \o Flatten([i \in DOMAIN summary |-> general_lines(summary[i][1])]))

(* QueryEngine._generate_answer *)
generate_answer(parsed_query, analysis_results, text_cells) ==
    IF parsed_query.intent = "compare"
    THEN generate_comparison_answer(parsed_query, analysis_results)
    ELSE IF parsed_query.intent = "top"
    THEN generate_top_n_answer(parsed_query, analysis_results)
    ELSE IF parsed_query.intent = "trend"
    THEN generate_trend_answer(parsed_query, analysis_results)
    ELSE generate_general_answer(parsed_query, analysis_results, text_cells)

(* QueryEngine._collect_sources *)
collect_sources(d) == [i \in DOMAIN d |-> d[i][2].source]

-----------------------------------------------------------------------------
(* The pipeline of the query engine (QueryEngine.process_query).            *)

(* The str of a string held as the sequence of its characters. *)
RECURSIVE ToStr(_)
ToStr(chars) == IF chars = <<>> THEN "" ELSE Head(chars) \o ToStr(Tail(chars))

Reverse(s) == [i \in DOMAIN s |-> s[Len(s) + 1 - i]]

(* list(set(crops)): the order is that of the hashes of the names, which    *)
(* the hash seed fixes; the seeds of the model give the order of            *)
(* MAJOR_CROPS and its reverse.                                             *)
crop_list(crops) ==
    LET places == SortedSeq({i \in DOMAIN MAJOR_CROPS : MAJOR_CROPS[i] \in crops})
        names == [k \in DOMAIN places |-> ToStr(MAJOR_CROPS[places[k]])]
    IN IF hash_seed = 0 THEN names ELSE Reverse(names)

(* The fetcher as a call finds it and leaves it, with the datasets fetched  *)
(* and the exceptions raised so far.                                        *)
FetcherState(c, rt, t) ==
    [cache |-> c, request_times |-> rt, now |-> t, http |-> 0, calls |-> 0,
     data_results |-> <<>>, raised |-> <<>>, lineage |-> <<>>]

(* The tail of fetch_rainfall_data, fetch_crop_production and               *)
(* fetch_district_data: the table of the records of the result.  A result   *)
(* whose data is a list has no 'records' member to index.                   *)
frame_of_result(result) ==
    IF result.records_count > 0
    THEN IF result.data.type = "list"
         THEN [raises |-> TRUE, error |-> "list indices must be integers or slices, not str"]
         ELSE [raises |-> FALSE, dataframe |-> DataFrame(result.data.records)]
    ELSE [raises |-> FALSE, dataframe |-> EmptyFrame]

(* _fetch_data_for_query, after the fetch_data call of a dataset gave r:    *)
(* the table and the citation under the key, or the exception logged and    *)
(* the key left out.  lineage keeps where the result came from.             *)
store_dataset(f, key, endpoint_name, r) ==
    LET frame == frame_of_result(r.result)
    IN [cache |-> r.cache,
        request_times |-> r.request_times,
        now |-> r.now,
        http |-> f.http + r.http,
        calls |-> f.calls + 1,
        data_results |->
            IF frame.raises THEN f.data_results
            ELSE Append(f.data_results,
                        <<key, [dataframe |-> frame.dataframe,
                                source |-> get_source_citation(endpoint_name)]>>),
        raised |->
            IF frame.raises
            THEN Append(f.raised, [step |-> "fetch", key |-> key, error |-> frame.error])
            ELSE f.raised,
        lineage |->
            Append(f.lineage, [key |-> key, endpoint |-> endpoint_name,
                               url |-> r.result.url,
                               from_cache |-> r.result.from_cache,
                               demo_mode |-> Get(r.result, "demo_mode", FALSE)])]

(* One dataset of _fetch_data_for_query: the fetch_data call with the       *)
(* filters, and what is kept of its result.                                 *)
fetch_dataset(f, key, endpoint_name, filters, outcome) ==
    store_dataset(f, key, endpoint_name,
                  fetch_data(f.cache, f.request_times, f.now, endpoint_name, filters, outcome))

(* DataFetcher.fetch_rainfall_data / fetch_crop_production /                *)
(* fetch_district_data: the filters of the fetch_data call.                 *)
YearList(years) == JoinStr([i \in DOMAIN years |-> ToString(years[i])])
rainfall_filters(states, years) ==
    << <<"state", PyStr(JoinStr(states))>>, <<"year", PyStr(YearList(years))>> >>
production_filters(states, crops, years) ==
    << <<"state", PyStr(JoinStr(states))>> >>
    \o (IF crops # <<>> THEN << <<"crop", PyStr(JoinStr(crops))>> >> ELSE <<>>)
    \o (IF years # <<>> THEN << <<"year", PyStr(YearList(years))>> >> ELSE <<>>)
district_filters(state, crops) ==
    << <<"state", PyStr(state)>> >>
    \o (IF crops # <<>> THEN << <<"crop", PyStr(crops[1])>> >> ELSE <<>>)

(* _fetch_data_for_query: the district data of each state in turn. *)
RECURSIVE fetch_districts(_, _, _, _)
fetch_districts(f, states, crops, outcome) ==
    IF states = <<>> THEN f
    ELSE fetch_districts(
             fetch_dataset(f, DistrictKey(Head(states)), "district_wise_crops",
                           district_filters(Head(states), crops), outcome),
             Tail(states), crops, outcome)

(* QueryEngine._fetch_data_for_query, with the outcome of the HTTP request  *)
(* of each dataset (if one is made) given by e.                             *)
fetch_data_for_query(parsed_query, f, e) ==
    LET states == [i \in DOMAIN parsed_query.states |-> ToStr(parsed_query.states[i])]
        crops == crop_list(parsed_query.crops)
        years == SortedSeq(parsed_query.years)
        metrics == Range(parsed_query.metrics)
        f1 == IF "rainfall" \in metrics /\ states # <<>>
              THEN fetch_dataset(f, DataKey("rainfall"), "imd_rainfall",
                                 rainfall_filters(states, years), e.rainfall)
              ELSE f
        f2 == IF "production" \in metrics /\ states # <<>>
              THEN fetch_dataset(f1, DataKey("production"), "agriculture_production",
                                 production_filters(states, crops, years), e.production)
              ELSE f1
    IN IF parsed_query.districts # <<>>
          \/ Contains(<<"d", "i", "s", "t", "r", "i", "c", "t">>,
                      lower(parsed_query.original_query))
       THEN fetch_districts(f2, states, crops, e.district)
       ELSE f2

(* The result with the default confidence in place of 0.0. *)
error_result_default_confidence(e) ==
    [answer |-> <<"I encountered an error processing your query: ", e,
                  ". Please try rephrasing your question.">>,
     data |-> <<>>,
     visualizations |-> <<>>,
     sources |-> <<>>,
     confidence |-> 80,
     data_points |-> 0,
     error |-> e]

(* process_query, the handler of Exception: the result that tells of the    *)
(* error e.  The confidence is in hundredths; processing_time is left out.  *)
error_result(e) ==
    [answer |-> <<"I encountered an error processing your query: ", e,
                  ". Please try rephrasing your question.">>,
     data |-> <<>>,
     visualizations |-> <<>>,
     sources |-> <<>>,
     confidence |-> 0,
     data_points |-> 0,
     error |-> e]

(* query.lower() on a query that is None. *)
AttributeError == "'NoneType' object has no attribute 'lower'"

(* process_query, from step 4 on: the visualizations, the answer and the   *)
(* sources, and the result returned; charts is what the chart routine gave  *)
(* inside create_visualizations.                                            *)
assemble_result(parsed_query, fetched, analysed, charts, answer) ==
    [parsed |-> parsed_query, fetched |-> fetched, analysis |-> analysed,
     roundings |-> IF parsed_query.intent = "trend"
                   THEN Roundings(fetched.data_results) ELSE {0},
     raised |-> fetched.raised
                \o (IF charts.raises
                    THEN <<[step |-> "chart", key |-> DataKey(""), error |-> charts.error]>>
                    ELSE <<>>)
                \o (IF answer.raises
                    THEN <<[step |-> "answer", key |-> DataKey(""), error |-> answer.error]>>
                    ELSE <<>>),
     response |->
         IF answer.raises THEN error_result(answer.error)
         ELSE [answer |-> answer.answer,
               data |-> Get(analysed.result, "data", <<>>),
               visualizations |-> create_visualizations(parsed_query, analysed.result),
               sources |-> collect_sources(fetched.data_results),
               confidence |-> Get(analysed.result, "confidence", 80),
               data_points |-> Get(analysed.result, "data_points", 0),
               query_type |-> parsed_query.intent]]

(* process_query, from step 3 on: what the analysis gave, and the rest if   *)
(* it did not raise.                                                        *)
answer_query(parsed_query, fetched, analysed, e) ==
    IF analysed.result.raises
    THEN [parsed |-> parsed_query, fetched |-> fetched, analysis |-> analysed,
          roundings |-> {0},
          raised |-> Append(fetched.raised,
                            [step |-> "analyse", key |-> DataKey(""),
                             error |-> analysed.result.error]),
          response |-> error_result(analysed.result.error)]
    ELSE assemble_result(parsed_query, fetched, analysed,
                         chart_routine(parsed_query, analysed.result),
                         generate_answer(parsed_query, analysed.result, e.text_cells))

(* process_query, from step 2 on: the data fetched and analysed. *)
analyse_query(parsed_query, fetched, e, round) ==
    answer_query(parsed_query, fetched,
                 analyze_data(parsed_query, fetched.data_results, round), e)

(* QueryEngine.process_query on the query q (None if e says so) with the    *)
(* fetcher as f: what the steps gave, the fetcher as it is left, the        *)
(* exceptions raised on the way and the result returned.                    *)
process_query(q, f, e, round) ==
    IF e.query_is_none
    THEN [parsed |-> NotParsed, fetched |-> f, analysis |-> NotAnalysed,
          roundings |-> {0},
          raised |-> <<[step |-> "parse", key |-> DataKey(""), error |-> AttributeError]>>,
          response |-> error_result(AttributeError)]
    ELSE analyse_query(parse_query(q), fetch_data_for_query(parse_query(q), f, e), e, round)

-----------------------------------------------------------------------------
(* The queries of the pipeline: one for each intent, one that asks for the  *)
(* districts of two states, one with two crops, one without a state.        *)
EngineQueries ==
    { <<"c", "o", "m", "p", "a", "r", "e", " ", "P", "u", "n", "j", "a", "b", " ", "h", "a", "r", "y", "a", "n", "a">>,
      <<"T", "o", "p", " ", "3", " ", "P", "u", "n", "j", "a", "b">>,
      <<"t", "r", "e", "n", "d", " ", "P", "u", "n", "j", "a", "b">>,
      <<"i", "m", "p", "a", "c", "t", " ", "P", "u", "n", "j", "a", "b", " ", "h", "a", "r", "y", "a", "n", "a">>,
      <<"w", "h", "a", "t", " ", "P", "u", "n", "j", "a", "b">>,
      <<"d", "i", "s", "t", "r", "i", "c", "t", " ", "P", "u", "n", "j", "a", "b", " ", "h", "a", "r", "y", "a", "n", "a">>,
      <<"w", "h", "a", "t", " ", "r", "i", "c", "e", " ", "w", "h", "e", "a", "t", " ", "P", "u", "n", "j", "a", "b">>,
      <<"r", "i", "c", "e">> }

DistrictRow(s, k, v) ==
    [state |-> s, district |-> s \o "_District_" \o ToString(k), crop |-> "Rice",
     production_tonnes |-> v, year |-> 2023]

(* What the API answers to the request for a dataset: no answer, a dict of  *)
(* records, a dict of records without the measured column, or a list; and   *)
(* for the production dataset a dict of no records.                         *)
Live(data) == [ok |-> TRUE, data |-> data]
RainfallOutcomes ==
    { HttpFailure,
      Live(JsonDict(<<RainfallRow("Punjab", 2020, 100), RainfallRow("Punjab", 2021, 102)>>)),
      Live(JsonDict(Without(<<RainfallRow("Punjab", 2020, 100)>>, "annual_rainfall_mm"))),
      Live(JsonList(<<RainfallRow("Punjab", 2020, 100)>>)) }
ProductionOutcomes ==
    { HttpFailure,
      Live(JsonDict(<<ProductionRow("Punjab", 2020, 100), ProductionRow("Punjab", 2021, 102)>>)),
      Live(JsonDict(Without(<<ProductionRow("Punjab", 2020, 100)>>, "production_tonnes"))),
      Live(JsonDict(<<>>)),
      Live(JsonList(<<ProductionRow("Punjab", 2020, 100)>>)) }
DistrictOutcomes ==
    { HttpFailure,
      Live(JsonDict(<<DistrictRow("Punjab", 1, 100)>>)),
      Live(JsonList(<<DistrictRow("Punjab", 1, 100)>>)) }

(* The surroundings of a query: the answer of the API for each dataset,     *)
(* whether the records of the API carry the measured values as text, and    *)
(* whether the query handed in is None.                                     *)
Envs ==
    [rainfall : RainfallOutcomes, production : ProductionOutcomes,
     district : DistrictOutcomes, text_cells : BOOLEAN, query_is_none : BOOLEAN]

(* Text cells are looked at in the answer to a 'retrieve' query only, and   *)
(* are in every dataset if the API answers every request with records.      *)
InitQuery ==
    /\ api_key_set \in BOOLEAN
    /\ hash_seed \in HashSeeds
    /\ FetcherIdle
    /\ query \in EngineQueries
    /\ words = <<>>
    /\ parsed = NotParsed
    /\ data_results = <<>>
    /\ rounding = 0
    /\ analysis = NotAnalysed
    /\ env \in Envs
    /\ is_demo_mode =>
          env.rainfall = HttpFailure /\ env.production = HttpFailure
          /\ env.district = HttpFailure
    /\ env.text_cells =>
          /\ ~is_demo_mode
          /\ ~env.query_is_none
          /\ detect_intent(lower(query)) = "retrieve"
          /\ \A k \in {"rainfall", "production", "district"} :
                 env[k].ok /\ env[k].data.type = "dict"
    /\ raised = <<>>
    /\ lineage = <<>>
    /\ response = <<>>

(* QueryEngine.process_query(query) *)
ProcessQuery ==
    /\ response = <<>>
    /\ \E round \in {-1, 0, 1} :
         \E r \in {process_query(query, FetcherState(cache, request_times, now), env, round)} :
            /\ round \in r.roundings
            /\ rounding' = round
            /\ parsed' = r.parsed
            /\ cache' = r.fetched.cache
            /\ request_times' = r.fetched.request_times
            /\ now' = r.fetched.now
            /\ http_requests' = http_requests + r.fetched.http
            /\ calls' = calls + r.fetched.calls
            /\ data_results' = r.fetched.data_results
            /\ analysis' = r.analysis
            /\ raised' = r.raised
            /\ lineage' = r.fetched.lineage
            /\ response' = r.response
    /\ UNCHANGED <<api_key_set, hash_seed, ticks, origin, last, query, words, env>>

NextQuery == ProcessQuery

SpecQuery == InitQuery /\ [][NextQuery]_vars


-----------------------------------------------------------------------------
(* The ranking of a top-N query: top_n_analysis on a table, then the        *)
(* answer written from what it returned.                                    *)

CropRow(c, v) == [ProductionRow("Punjab", 2020, v) EXCEPT !.crop = c]

(* Up to MaxProductionRows rows of three crops and up to MaxRainfallRows    *)
(* rows of three states, with two values so that totals and means tie and   *)
(* differ; the tables without a column; both datasets at once.              *)
RankedCrops == {"Rice", "Wheat", "Maize"}
RankedStates == {"Punjab", "Haryana", "Maharashtra"}
RankedValues == {100, 200}
CropTables == RowSeqs({CropRow(c, v) : c \in RankedCrops, v \in RankedValues},
                      MaxProductionRows)
StateTables == RowSeqs({RainfallRow(s, 2020, v) : s \in RankedStates, v \in RankedValues},
                       MaxRainfallRows)

TopNInputs ==
    { <<>> }
    \cup { <<RainfallData(EmptyFrame)>>, <<ProductionData(EmptyFrame)>> }
    \cup { <<ProductionData(DataFrame(p))>> : p \in CropTables \cup IncompleteProduction }
    \cup { <<RainfallData(DataFrame(r))>> : r \in StateTables \cup IncompleteRainfall }
    \cup { <<RainfallData(DataFrame(<<RainfallRow("Punjab", 2020, 100)>>)),
             ProductionData(df)>> :
             df \in {EmptyFrame,
                     DataFrame(<<CropRow("Rice", 100), CropRow("Wheat", 200)>>)} }

(* The numbers a query can ask for: none, fewer than the groups of a table, *)
(* as many, and the default. *)
TopNs == {0, 1, 2, 3, DEFAULT_TOP_N}

InitTopN ==
    /\ api_key_set = FALSE
    /\ hash_seed = 0
    /\ FetcherIdle
    /\ query = <<>>
    /\ words = <<>>
    /\ \E n \in TopNs : parsed = [intent |-> "top", top_n |-> n]
    /\ data_results \in TopNInputs
    /\ rounding = 0
    /\ analysis = NotAnalysed
    /\ env = <<>>
    /\ raised = <<>>
    /\ lineage = <<>>
    /\ response = <<>>

(* AnalyticsEngine.top_n_analysis(parsed_query, data_results) *)
TopNAnalysis ==
    /\ analysis = NotAnalysed
    /\ analysis' = [routine |-> "top_n_analysis",
                    result |-> top_n_analysis(parsed, data_results)]
    /\ UNCHANGED <<data_results, rounding, env, raised, response, lineage>>
    /\ UNCHANGED <<query, words, parsed>>
    /\ UNCHANGED fetch_vars

(* QueryEngine._generate_top_n_answer(parsed_query, analysis), reached      *)
(* only if the analysis returned.                                           *)
TopNAnswer ==
    /\ analysis # NotAnalysed
    /\ ~analysis.result.raises
    /\ response = <<>>
    /\ response' = generate_top_n_answer(parsed, analysis.result)
    /\ UNCHANGED <<data_results, rounding, analysis, env, raised, lineage>>
    /\ UNCHANGED <<query, words, parsed>>
    /\ UNCHANGED fetch_vars

NextTopN == TopNAnalysis \/ TopNAnswer

SpecTopN == InitTopN /\ [][NextTopN]_vars

-----------------------------------------------------------------------------
(* The trend of a trend query: trend_analysis on the tables of the          *)
(* analytics engine, then the answer written from what it returned.         *)

(* QueryEngine._generate_trend_answer(parsed_query, analysis), reached only *)
(* if the analysis returned.                                                *)
TrendAnswer ==
    /\ analysis # NotAnalysed
    /\ analysis.routine = "trend_analysis"
    /\ ~analysis.result.raises
    /\ response = <<>>
    /\ response' = generate_trend_answer(parsed, analysis.result)
    /\ UNCHANGED <<data_results, rounding, analysis, env, raised, lineage>>
    /\ UNCHANGED <<query, words, parsed>>
    /\ UNCHANGED fetch_vars

NextTrend == TrendAnalysis \/ TrendAnswer

SpecTrend == InitAnalytics /\ [][NextTrend]_vars

-----------------------------------------------------------------------------
(* Queries whose words match the intent patterns, several at once: a word   *)
(* of each of the four patterns ('Top' with and without its number), a word *)
(* with 'what' inside it, and a word that matches nothing.                  *)
IntentVocabulary ==
    { <<"c", "o", "m", "p", "a", "r", "e">>,
      <<"T", "o", "p">>,
      <<"3">>,
      <<"t", "r", "e", "n", "d">>,
      <<"i", "m", "p", "a", "c", "t">>,
      <<"s", "o", "m", "e", "w", "h", "a", "t">>,
      <<"r", "i", "c", "e">> }

IntentWordSeqs == UNION {[1..n -> IntentVocabulary] : n \in 1..MaxWords}

InitIntent ==
    /\ api_key_set = FALSE
    /\ hash_seed = 0
    /\ FetcherIdle
    /\ AnalyticsIdle
    /\ words \in IntentWordSeqs
    /\ query = Join(words)
    /\ parsed = NotParsed

SpecIntent == InitIntent /\ [][NextParse]_vars
-----------------------------------------------------------------------------
(* Properties of the fetcher. *)

(* The fields of a stored result other than from_cache. *)
PayloadFields == {"data", "endpoint", "url", "parameters", "timestamp", "records_count"}

SamePayload(r, stored) ==
    /\ PayloadFields \subseteq DOMAIN r
    /\ \A f \in PayloadFields : r[f] = stored[f]

(* The last call was a call of fetch_data. *)
Fetched == calls > 0 /\ last.branch # "clear"

(* The last call found an entry stored for its request, of the given age. *)
LastAge == last.at - last.stored.timestamp
LastFresh == calls > 0 /\ last.known /\ LastAge < CACHE_TTL
LastExpired == calls > 0 /\ last.known /\ LastAge >= CACHE_TTL

(* C1: a fetch_data call for a request whose result a live fetch has        *)
(* stored, made while the entry is younger than CACHE_TTL, returns the      *)
(* stored payload (data and metadata) unchanged, marked from_cache.         *)
C1_CacheRoundTrip ==
    LastFresh =>
        /\ SamePayload(last.result, last.stored)
        /\ last.result.from_cache = TRUE
        /\ last.http = 0

(* C1 witness: an entry read back one second before it expires. *)
C1_Witness ==
    /\ LastFresh
    /\ LastAge = CACHE_TTL - 1
    /\ last.result.data = last.stored.data
    /\ last.result.data.type = "list"

(* C2: a fetch_data call for a request whose entry has reached the age      *)
(* CACHE_TTL does not return from the validity check: it goes on to the     *)
(* demo-mode check and issues the live request, and what it returns is not  *)
(* presented as a valid cache hit.                                          *)
C2_ExpiredIsMiss ==
    LastExpired =>
        /\ last.branch \in {"live", "stale", "fallback"}
        /\ last.http = 1
        /\ (last.result.from_cache => Get(last.result, "cache_expired", FALSE))

(* C2 witness: an entry of age exactly CACHE_TTL, refetched live. *)
C2_Witness ==
    /\ LastExpired
    /\ LastAge = CACHE_TTL
    /\ last.branch = "live"
    /\ ~last.result.from_cache

(* C3: with an API key, no valid entry and a failed live request, the call  *)
(* returns the stored entry of its request if there is one, marked          *)
(* from_cache and cache_expired, and demo data otherwise.                   *)
C3_FallbackChain ==
    (/\ Fetched
     /\ api_key_set
     /\ last.endpoint \in API_ENDPOINTS
     /\ ~LastFresh
     /\ ~last.outcome.ok)
    => /\ last.http = 1
       /\ IF last.known
          THEN /\ SamePayload(last.result, last.stored)
               /\ last.result.from_cache = TRUE
               /\ Get(last.result, "cache_expired", FALSE) = TRUE
               /\ ~Get(last.result, "demo_mode", FALSE)
          ELSE /\ Get(last.result, "demo_mode", FALSE) = TRUE
               /\ last.result.from_cache = FALSE
               /\ last.result.url = <<"demo://", last.endpoint>>

(* C3 witnesses: the stale entry returned, and demo data returned. *)
C3_Witness ==
    /\ calls > 0 /\ api_key_set /\ ~last.outcome.ok /\ LastExpired
    /\ last.branch = "stale"
    /\ Get(last.result, "cache_expired", FALSE)

C3_WitnessDemo ==
    /\ calls > 0 /\ api_key_set /\ ~last.outcome.ok /\ ~last.known
    /\ last.endpoint \in API_ENDPOINTS
    /\ Get(last.result, "demo_mode", FALSE)

(* C5: without an API key no call issues an HTTP request and every call     *)
(* returns synthetic data marked demo_mode.                                 *)
C5_DemoMode ==
    ~api_key_set =>
        /\ http_requests = 0
        /\ cache = <<>>
        /\ Fetched => /\ Get(last.result, "demo_mode", FALSE) = TRUE
                      /\ last.result.from_cache = FALSE
                      /\ last.result.url = <<"demo://", last.endpoint>>

(* C5 witness: two calls made without an API key. *)
C5_Witness ==
    /\ ~api_key_set
    /\ calls >= 2
    /\ last.endpoint = "imd_rainfall"
    /\ Get(last.result, "demo_mode", FALSE)
    /\ last.result.records_count = 6

(* C10: two calls have the same cache file exactly when they are the same   *)
(* request (endpoint and set of parameters), whatever the order of the      *)
(* filter arguments; and a result answered from the cache is the one        *)
(* stored for the endpoint and parameters of the call.                      *)
ValidCalls == {call \in CallInputs : call.endpoint_name \in API_ENDPOINTS}
PathOf(call) ==
    get_cache_path(get_cache_key(call.endpoint_name, get_api_params(call.filters)))

C10_CacheKeying ==
    /\ calls = 0 =>
          \A a, b \in ValidCalls :
             (PathOf(a) = PathOf(b)) <=>
             (Request(a.endpoint_name, a.filters) = Request(b.endpoint_name, b.filters))
    /\ (calls > 0 /\ last.result.from_cache) =>
          /\ last.result.endpoint = last.endpoint
          /\ <<last.result.endpoint, ParamSet(last.result.parameters)>> = last.request
          /\ last.known /\ SamePayload(last.result, last.stored)

(* C10 witness: a result stored with the filters in one order is answered   *)
(* from the cache to a call that gives them in the other order, while an    *)
(* entry of another endpoint exists.                                        *)
C10_Witness ==
    /\ calls > 0 /\ last.result.from_cache
    /\ Len(last.filters) = 2
    /\ last.filters[2][2] # PyNone
    /\ last.result.parameters # get_api_params(last.filters)
    /\ ParamSet(last.result.parameters) = ParamSet(get_api_params(last.filters))

-----------------------------------------------------------------------------
(* Properties of the query parser. *)

(* C6: for a query with two known state names and one known crop name      *)
(* among its words, _extract_states returns exactly those two states and    *)
(* _extract_crops exactly that crop.                                        *)
C6_ExactEntities ==
    (parsed # NotParsed /\ IsEntityQuery(words)) =>
        /\ Range(parsed.states) = {INDIAN_STATES[i] : i \in StateWordsIn(words)}
        /\ parsed.crops = {MAJOR_CROPS[i] : i \in CropWordsIn(words)}

(* The numbers of the vocabulary and their values. *)
NumberWords == { <<"3">>, <<"1", "0">> }
NumberValue(w) == IF w = <<"3">> THEN 3 ELSE 10
TopWord == <<"t", "o", "p">>

(* The places of the phrases 'top N' and 'N most|best|highest' in ws. *)
TopPhrases(ws) ==
    {k \in 1..(Len(ws) - 1) : lower(ws[k]) = TopWord /\ ws[k + 1] \in NumberWords}
MostPhrases(ws) ==
    {k \in 1..(Len(ws) - 1) : ws[k] \in NumberWords /\ lower(ws[k + 1]) \in MostWords}
Least(S) == CHOOSE k \in S : \A j \in S : k <= j

(* C7: for a query with the phrase 'top N' in any letter case               *)
(* _extract_top_n returns N (the N of the first such phrase); for a query   *)
(* with no 'top N' and no 'N most|best|highest' it returns 5.               *)
C7_TopN ==
    parsed # NotParsed =>
        /\ TopPhrases(words) # {} =>
              parsed.top_n = NumberValue(words[Least(TopPhrases(words)) + 1])
        /\ (TopPhrases(words) = {} /\ MostPhrases(words) = {}) => parsed.top_n = 5

(* C7 witnesses: 'Top 10' written with a capital, and a query with the     *)
(* word 'top' but no number.                                                *)
C7_Witness ==
    /\ parsed # NotParsed
    /\ \E k \in TopPhrases(words) : words[k] # TopWord /\ NumberValue(words[k + 1]) = 10
    /\ parsed.top_n = 10

C7_WitnessDefault ==
    /\ parsed # NotParsed
    /\ TopPhrases(words) = {} /\ MostPhrases(words) = {}
    /\ \E k \in DOMAIN words : lower(words[k]) = TopWord
    /\ parsed.top_n = 5

-----------------------------------------------------------------------------
(* Properties of the analytics engine. *)

TrendDone ==
    /\ analysis # NotAnalysed
    /\ analysis.routine = "trend_analysis"
    /\ ~analysis.result.raises
    /\ analysis.result.trend_summary # <<>>

(* The thresholds of the trend: 2 for production, 1 for rainfall. *)
TrendThreshold == IF DictHas(data_results, DataKey("production")) THEN 2 ELSE 1

(* g above t, and g below -t, for the growth rate g as returned. *)
GrowthAbove(g, t) ==
    g.kind = "inf" \/ (g.kind = "finite" /\ (g.num > t * g.den
                                             \/ (g.num = t * g.den /\ g.round = 1)))
GrowthBelow(g, t) ==
    g.kind = "finite" /\ (g.num < -t * g.den \/ (g.num = -t * g.den /\ g.round = -1))

(* C8: the direction trend_analysis returns is 'increasing' if the mean     *)
(* year-over-year percentage growth g it returns is above the threshold     *)
(* (2 for a production trend, 1 for a rainfall trend), 'decreasing' if g    *)
(* is below the negated threshold and 'stable' otherwise, g equal to the    *)
(* threshold included; over two years g is (end / start - 1) * 100.         *)
C8_TrendDirection ==
    TrendDone =>
        LET s == analysis.result.trend_summary
            g == s.growth_rate
        IN /\ s.direction = IF GrowthAbove(g, TrendThreshold) THEN "increasing"
                            ELSE IF GrowthBelow(g, TrendThreshold) THEN "decreasing"
                            ELSE "stable"
           /\ (Len(s.yearly_data) = 2 /\ s.start_value.num > 0) =>
                 /\ g.kind = "finite"
                 /\ g.num * s.start_value.num * s.end_value.den
                      = 100 * g.den * (s.end_value.num * s.start_value.den
                                       - s.start_value.num * s.end_value.den)

(* C8 witnesses: a production trend whose growth is 2 exactly, found        *)
(* stable, and a rainfall trend with a growth between 1 and 2, found        *)
(* increasing.                                                              *)
C8_Witness ==
    /\ TrendDone
    /\ TrendThreshold = 2
    /\ Roundings(data_results) = {0}
    /\ analysis.result.trend_summary.growth_rate.kind = "finite"
    /\ analysis.result.trend_summary.growth_rate.num
         = 2 * analysis.result.trend_summary.growth_rate.den
    /\ analysis.result.trend_summary.direction = "stable"

C8_WitnessRainfall ==
    /\ TrendDone
    /\ TrendThreshold = 1
    /\ analysis.result.trend_summary.growth_rate.kind = "finite"
    /\ analysis.result.trend_summary.growth_rate.num
         > analysis.result.trend_summary.growth_rate.den
    /\ analysis.result.trend_summary.growth_rate.num
         < 2 * analysis.result.trend_summary.growth_rate.den
    /\ analysis.result.trend_summary.direction = "increasing"

CorrelationDone ==
    /\ analysis # NotAnalysed
    /\ analysis.routine = "correlation_analysis"
    /\ ~analysis.result.raises

(* The rows of the table of the dataset, none if the dataset is missing. *)
TableRows(name) ==
    IF DictHas(data_results, DataKey(name))
    THEN DictGet(data_results, DataKey(name), <<>>).dataframe.rows
    ELSE <<>>

(* The number of rows of the inner join of the two tables on (state, year); *)
(* there is none if a table has no such columns.                            *)
JoinedRows ==
    LET r == TableRows("rainfall")
        p == TableRows("production")
    IN Cardinality({ij \in (DOMAIN r) \X (DOMAIN p) :
          /\ {"state", "year"} \subseteq DOMAIN r[ij[1]]
          /\ {"state", "year"} \subseteq DOMAIN p[ij[2]]
          /\ r[ij[1]].state = p[ij[2]].state
          /\ r[ij[1]].year = p[ij[2]].year})

(* C9: correlation_analysis returns a non-empty correlation result only     *)
(* when the inner join of the rainfall and production tables on (state,     *)
(* year) has more than 5 rows; with 5 or fewer, or a table missing or       *)
(* empty, the result is empty with data_points 0 and confidence 0.0.        *)
C9_CorrelationThreshold ==
    CorrelationDone =>
        /\ analysis.result.correlation_results # <<>> => JoinedRows > 5
        /\ JoinedRows <= 5 =>
              /\ analysis.result.correlation_results = <<>>
              /\ analysis.result.data_points = 0
              /\ analysis.result.confidence = 0

(* C9 witnesses: five joined rows give the empty result, six a result. *)
C9_Witness ==
    /\ CorrelationDone
    /\ JoinedRows = 5
    /\ analysis.result.correlation_results = <<>>
    /\ analysis.result.data_points = 0

C9_WitnessEnough ==
    /\ CorrelationDone
    /\ JoinedRows = 6
    /\ analysis.result.correlation_results # <<>>
    /\ analysis.result.data_points = 6
-----------------------------------------------------------------------------
(* Properties of the pipeline. *)

Answered == response # <<>>

Errors(steps) == {raised[i].error : i \in {j \in DOMAIN raised : raised[j].step \in steps}}

(* The response tells of the error e and of nothing else. *)
TellsOf(e) ==
    /\ "error" \in DOMAIN response
    /\ response.error = e
    /\ e \in Range(response.answer)
    /\ response.confidence = 0
    /\ response.data_points = 0
    /\ response.data = <<>>
    /\ response.visualizations = <<>>
    /\ response.sources = <<>>

(* C4, as stated: whatever error was raised while the query was parsed,     *)
(* its data fetched and analysed, its charts drawn or its answer written,   *)
(* the response is the result that tells of that error, with confidence     *)
(* 0.0, data_points 0 and empty data, visualizations and sources.           *)
C4_EveryErrorSurfaced ==
    Answered => \A e \in Errors({"parse", "fetch", "analyse", "chart", "answer"}) : TellsOf(e)

(* C4, amended: process_query returns a response whatever was raised.  An   *)
(* error raised while the query is parsed or analysed or the answer is      *)
(* written is told of in the response, with confidence 0.0, data_points 0   *)
(* and empty data, visualizations and sources.  If the only errors are      *)
(* raised while a dataset is fetched or the charts are drawn, the response  *)
(* is an answer without an 'error' field: a dataset whose fetch raised is   *)
(* left out of the data, and there are no charts if drawing them raised.    *)
C4_TopLevelErrors ==
    Answered =>
        /\ \A e \in Errors({"parse", "analyse", "answer"}) : TellsOf(e)
        /\ Errors({"parse", "analyse", "answer"}) = {} =>
              /\ "error" \notin DOMAIN response
              /\ response.query_type = parsed.intent
              /\ \A i \in DOMAIN raised :
                    /\ raised[i].step = "fetch" => ~DictHas(response.data, raised[i].key)
                    /\ raised[i].step = "chart" => response.visualizations = <<>>

(* A query of which one dataset could not be fetched and the other could    *)
(* not be analysed: the response tells of the second error only.            *)
C4_Witness ==
    /\ Answered
    /\ Errors({"fetch"}) # {}
    /\ \E e \in Errors({"analyse"}) : TellsOf(e) /\ e \notin Errors({"fetch"})

(* A query answered although a dataset could not be fetched. *)
C4_WitnessFetch ==
    /\ Answered
    /\ Errors({"fetch"}) # {}
    /\ "error" \notin DOMAIN response
    /\ response.sources # <<>>

(* A query answered although its charts could not be drawn. *)
C4_WitnessChart ==
    /\ Answered
    /\ Errors({"chart"}) # {}
    /\ "error" \notin DOMAIN response

(* A query that is None, and an answer that could not be written. *)
C4_WitnessParse == Answered /\ \E e \in Errors({"parse"}) : TellsOf(e)
C4_WitnessAnswer == Answered /\ \E e \in Errors({"answer"}) : TellsOf(e)

-----------------------------------------------------------------------------
(* Further properties of the fetcher. *)

(* A step that is a call of fetch_data. *)
FetchStep == calls' = calls + 1

(* C11: a call of fetch_data issues at most one HTTP request, whatever the   *)
(* outcome of that request; after a failed request the call returns the     *)
(* cache file of the request or demo data, without a second request.         *)
C11_NoRetries ==
    [][FetchStep =>
         /\ http_requests' - http_requests \in {0, 1}
         /\ http_requests' - http_requests = last'.http
         /\ (last'.http = 1 /\ ~last'.outcome.ok =>
               /\ last'.branch \in {"stale", "fallback"}
               /\ last'.branch = "stale" =>
                    last'.result.from_cache /\ last'.result.cache_expired
               /\ last'.branch = "fallback" =>
                    Get(last'.result, "demo_mode", FALSE))]_vars

(* A call whose one request failed and that returned demo data. *)
C11_Witness ==
    /\ calls = 1 /\ http_requests = 1
    /\ ~last.outcome.ok
    /\ last.branch = "fallback"
    /\ last.result.demo_mode

(* A second call whose request failed and that returned the expired entry,  *)
(* two requests in two calls.                                                *)
C11_WitnessStale ==
    /\ calls = 2 /\ http_requests = 2
    /\ ~last.outcome.ok
    /\ last.branch = "stale"

(* C12: a fetcher issues at most API_RATE_LIMIT HTTP requests within any    *)
(* window of RATE_WINDOW seconds.  Until RATE_WINDOW seconds have passed    *)
(* since the fetcher was made, every request it has issued lies in one      *)
(* window, so it has issued at most API_RATE_LIMIT requests.                *)
C12_RateLimit ==
    now < RATE_WINDOW => http_requests <= API_RATE_LIMIT

(* A step that is a call of clear_cache. *)
ClearStep == last'.branch = "clear" /\ last' # last

(* C13: clear_cache(endpoint_name) removes every cache entry that was       *)
(* stored for that endpoint and leaves the entries of the other endpoints   *)
(* as they are; clear_cache() removes every cache entry.                    *)
C13_ClearCache ==
    [][ClearStep =>
         /\ DOMAIN cache' =
               IF last'.endpoint = ""
               THEN {}
               ELSE {cache_path \in DOMAIN cache :
                        read_cache(cache, cache_path).endpoint # last'.endpoint}
         /\ \A cache_path \in DOMAIN cache' : cache'[cache_path] = cache[cache_path]]_vars

(* The kinds a result is of. *)
KindsOf(result) ==
    {k \in {"live", "cached", "demo"} :
        \/ k = "live" /\ ~result.from_cache /\ "demo_mode" \notin DOMAIN result
        \/ k = "cached" /\ result.from_cache
        \/ k = "demo" /\ Get(result, "demo_mode", FALSE)}

(* C16: the result of a fetch_data call is of exactly one kind: live        *)
(* (from_cache false, no demo_mode), cached (from_cache true) or demo       *)
(* (demo_mode true), as the branch the call returned from has it; and no    *)
(* cache entry holds a demo result, so that no result is both from_cache    *)
(* and demo_mode.                                                          *)
C16_ResultKind ==
    /\ Fetched =>
          /\ Cardinality(KindsOf(last.result)) = 1
          /\ ~(last.result.from_cache /\ Get(last.result, "demo_mode", FALSE))
          /\ last.branch = "live" => KindsOf(last.result) = {"live"}
          /\ last.branch \in {"cache", "stale"} => KindsOf(last.result) = {"cached"}
          /\ last.branch \in {"demo", "fallback", "invalid"} =>
                KindsOf(last.result) = {"demo"}
    /\ \A cache_path \in DOMAIN cache :
          /\ "demo_mode" \notin DOMAIN read_cache(cache, cache_path)
          /\ ~read_cache(cache, cache_path).from_cache

(* C16 witnesses: the expired entry returned by the handler of a failed     *)
(* request, which is cached and not demo; demo data returned while the      *)
(* cache holds an entry; and a live result.                                 *)
C16_Witness ==
    /\ calls = 2 /\ http_requests = 2
    /\ last.branch = "stale"
    /\ KindsOf(last.result) = {"cached"}
    /\ Cardinality(DOMAIN cache) = 1

C16_WitnessDemo ==
    /\ Fetched /\ api_key_set /\ cache # <<>>
    /\ last.branch = "fallback"
    /\ KindsOf(last.result) = {"demo"}

C16_WitnessLive ==
    Fetched /\ last.branch = "live" /\ KindsOf(last.result) = {"live"}

(* The cache file of the request of a call. *)
RequestPath(call) ==
    get_cache_path(get_cache_key(call.endpoint, get_api_params(call.filters)))

(* C17: a fetch_data call answered from a valid cache entry issues no HTTP  *)
(* request and leaves the cache, the entry and its modification time        *)
(* included, as it was; the entry it is answered from was written less      *)
(* than CACHE_TTL seconds before, however often it was read since.          *)
C17_CacheHitFrame ==
    [][(FetchStep /\ last'.branch = "cache") =>
          /\ http_requests' = http_requests
          /\ cache' = cache
          /\ request_times' = request_times
          /\ now' = now
          /\ last'.known
          /\ cache[RequestPath(last')].mtime = last'.stored.timestamp
          /\ now - last'.stored.timestamp < CACHE_TTL]_vars

(* C17 witness: an entry read one second before it expires, with its        *)
(* modification time still the time it was written at.                      *)
C17_Witness ==
    /\ Fetched /\ last.branch = "cache" /\ last.http = 0
    /\ now = CACHE_TTL - 1
    /\ cache[RequestPath(last)].mtime = 0
    /\ last.stored.timestamp = 0

(* C18: fetch_data writes a cache entry only after a successful live HTTP   *)
(* response, and only the entry of its request; a call that ends in a       *)
(* failed request, in the stale-cache fallback or in demo data (or in a     *)
(* cache hit) leaves every cache entry, content and modification time, as   *)
(* it was.                                                                  *)
C18_CacheWrites ==
    [][FetchStep =>
          IF last'.branch = "live"
          THEN /\ last'.outcome.ok
               /\ http_requests' = http_requests + 1
               /\ DOMAIN cache' = DOMAIN cache \cup {RequestPath(last')}
               /\ \A cache_path \in DOMAIN cache :
                     cache_path # RequestPath(last') => cache'[cache_path] = cache[cache_path]
               /\ cache'[RequestPath(last')].mtime = now'
               /\ read_cache(cache', RequestPath(last')) = last'.result
          ELSE cache' = cache]_vars

(* C18 witnesses: a second entry written with the first one left as it was; *)
(* a failed request, answered with demo data and with the expired entry,    *)
(* that left the cache as it was.                                           *)
C18_Witness ==
    /\ Fetched /\ last.branch = "live"
    /\ Cardinality(DOMAIN cache) = 2
    /\ \E cache_path \in DOMAIN cache : cache[cache_path].mtime < now

C18_WitnessFallback ==
    /\ Fetched /\ last.branch = "fallback" /\ last.http = 1
    /\ Cardinality(DOMAIN cache) = 1

C18_WitnessStale ==
    /\ Fetched /\ last.branch = "stale" /\ last.http = 1
    /\ \A cache_path \in DOMAIN cache : cache[cache_path].mtime = 0
    /\ now = CACHE_TTL

-----------------------------------------------------------------------------
(* Further properties of the query parser. *)

(* The years a word of YearVocabulary names, and those the words ws name. *)
YearsOf(w) ==
    IF w = <<"2", "0", "1", "5">> THEN {2015}
    ELSE IF w = <<"2", "0", "2", "0">> THEN {2020}
    ELSE IF w = <<"1", "9", "9", "9">> THEN {1999}
    ELSE IF w = <<"2", "0", "1", "5", "-", "2", "0", "2", "0">> THEN {2015, 2020}
    ELSE {}
YearsNamed(ws) == UNION {YearsOf(ws[k]) : k \in DOMAIN ws}

(* C14: for a query that names four-digit years 19xx/20xx and has no        *)
(* 'last N years' and no decade phrase, _extract_years returns exactly the  *)
(* years named in the query.                                                *)
C14_ExplicitYears ==
    (parsed # NotParsed /\ YearsNamed(words) # {}) => parsed.years = YearsNamed(words)

-----------------------------------------------------------------------------
(* Further properties of the pipeline. *)

(* The analysis routine of each intent. *)
RoutineOf ==
    [compare |-> "compare_analysis", top |-> "top_n_analysis", trend |-> "trend_analysis",
     correlation |-> "correlation_analysis", retrieve |-> "general_analysis"]

(* C15: a query that is parsed gets one of the five intents compare, top,   *)
(* trend, correlation and retrieve, and _analyze_data calls the analysis    *)
(* routine of that intent.                                                  *)
C15_IntentDispatch ==
    parsed # NotParsed =>
        /\ parsed.intent \in DOMAIN RoutineOf
        /\ analysis # NotAnalysed => analysis.routine = RoutineOf[parsed.intent]

(* C15 witnesses: a 'what ...' query analysed by general_analysis, a query  *)
(* with none of the intent words analysed by compare_analysis, and one      *)
(* query analysed by each of the other routines.                            *)
C15_Witness ==
    /\ Answered /\ parsed # NotParsed
    /\ parsed.intent = "retrieve"
    /\ analysis.routine = "general_analysis"

C15_WitnessDefault ==
    /\ Answered /\ parsed # NotParsed
    /\ query = <<"r", "i", "c", "e">>
    /\ parsed.intent = "compare"
    /\ analysis.routine = "compare_analysis"

C15_WitnessTop ==
    Answered /\ parsed # NotParsed /\ analysis.routine = "top_n_analysis"

C15_WitnessTrend ==
    Answered /\ parsed # NotParsed /\ analysis.routine = "trend_analysis"

C15_WitnessCorrelation ==
    Answered /\ parsed # NotParsed /\ analysis.routine = "correlation_analysis"

(* What fetch_data returned for the dataset stored under key. *)
LineageOf(key) == lineage[CHOOSE j \in DOMAIN lineage : lineage[j].key = key]

(* C19: the citation that process_query attaches to a dataset has a         *)
(* demo:// url exactly when the result fetch_data returned for the dataset  *)
(* is synthetic demo data, and the url of the API exactly when the result   *)
(* came from the API or from its cache.                                     *)
C19_DataLineage ==
    Answered =>
        \A i \in DOMAIN data_results :
            LET key == data_results[i][1]
                source == data_results[i][2].source
            IN /\ (source.url = <<"demo://", source.endpoint>>) <=> LineageOf(key).demo_mode
               /\ (source.url = get_api_url(source.endpoint).url) <=> ~LineageOf(key).demo_mode

(* A dataset is available: it is among the data and its table has rows. *)
Available(name) == HasData(data_results, name) /\ ~empty(FrameOf(data_results, name))

(* The top n states of the rainfall table by mean annual rainfall. *)
TopStatesByRainfall(n) ==
    LET ranking == sort_values_descending(
                       group_mean(FrameOf(data_results, "rainfall"), "state",
                                  "annual_rainfall_mm"))
    IN [i \in DOMAIN head(ranking, n) |->
           [name |-> ranking[i].name, value |-> ranking[i].value, unit |-> "mm"]]

(* C20: when top_n_analysis is given no production data (the dataset is     *)
(* absent or its table has no rows) and a rainfall table with rows, it      *)
(* ranks the top N states by mean annual rainfall, in mm.                   *)
C20_TopNFallback ==
    (/\ Answered /\ analysis # NotAnalysed
     /\ analysis.routine = "top_n_analysis"
     /\ ~Available("production")
     /\ Available("rainfall")
     /\ {"state", "annual_rainfall_mm"} \subseteq FrameOf(data_results, "rainfall").columns)
    => /\ ~analysis.result.raises
       /\ analysis.result.top_results # <<>>
       /\ analysis.result.top_results = TopStatesByRainfall(parsed.top_n)


-----------------------------------------------------------------------------
(* Properties of the ranking. *)

TopNDone ==
    /\ analysis # NotAnalysed
    /\ analysis.routine = "top_n_analysis"
    /\ ~analysis.result.raises

(* The rows of a table that carry the two columns, the groups among them,   *)
(* and the value of a group: the total of its rows or their mean.           *)
RankedRows(name, by, column) ==
    SelectSeq(TableRows(name), LAMBDA r : {by, column} \subseteq DOMAIN r)
GroupsOf(name, by, column) ==
    {RankedRows(name, by, column)[i][by] : i \in DOMAIN RankedRows(name, by, column)}
GroupValue(name, by, column, g, per_row) ==
    LET cells == ColumnOf(SelectSeq(RankedRows(name, by, column), LAMBDA r : r[by] = g), column)
    IN Rat(IntSum(cells), IF per_row THEN Len(cells) ELSE 1)

(* The entries rank the groups of the table: one entry per group at most,   *)
(* each with the value of its group, the larger value first, and no group   *)
(* left out with a value larger than that of an entry.                      *)
Ranks(top, name, by, column, unit, per_row) ==
    /\ \A i \in DOMAIN top :
          /\ top[i].name \in GroupsOf(name, by, column)
          /\ top[i].value = GroupValue(name, by, column, top[i].name, per_row)
          /\ top[i].unit = unit
    /\ \A i, j \in DOMAIN top : i < j =>
          /\ top[i].name # top[j].name
          /\ ~RatLess(top[i].value, top[j].value)
    /\ \A g \in GroupsOf(name, by, column) \ {top[i].name : i \in DOMAIN top} :
          \A i \in DOMAIN top :
             ~RatLess(top[i].value, GroupValue(name, by, column, g, per_row))

(* C21: top_n_analysis returns at most top_n entries, one per distinct crop *)
(* with its total production (or one per distinct state with its mean       *)
(* rainfall), ordered by value descending, and no crop (state) left out has *)
(* a larger value than an entry returned; the lines of the top-N answer     *)
(* after its first line list exactly those entries, in that order.          *)
C21_TopNResult ==
    TopNDone =>
       LET top == analysis.result.top_results
       IN /\ Len(top) <= parsed.top_n
          /\ \/ Ranks(top, "production", "crop", "production_tonnes", "tonnes", FALSE)
             \/ Ranks(top, "rainfall", "state", "annual_rainfall_mm", "mm", TRUE)
          /\ response # <<>> =>
                Tail(response.answer) =
                   [i \in DOMAIN top |->
                       ToString(i) \o ". " \o top[i].name \o " " \o top[i].unit]

(* Two of three crops are returned and answered, the first with the larger  *)
(* total.                                                                   *)
C21_Witness ==
    /\ TopNDone /\ response # <<>>
    /\ parsed.top_n = 2
    /\ Len(analysis.result.top_results) = 2
    /\ Cardinality(GroupsOf("production", "crop", "production_tonnes")) = 3
    /\ RatLess(analysis.result.top_results[2].value, analysis.result.top_results[1].value)

(* The crop returned has a total made of two rows, larger than the one row  *)
(* of the crop left out.                                                    *)
C21_WitnessTotal ==
    /\ TopNDone /\ response # <<>>
    /\ parsed.top_n = 1
    /\ Len(analysis.result.top_results) = 1
    /\ analysis.result.top_results[1].value = Rat(300, 1)
    /\ \E g \in GroupsOf("production", "crop", "production_tonnes") :
          GroupValue("production", "crop", "production_tonnes", g, FALSE) = Rat(200, 1)

(* One of two states is returned and answered, and the state left out has   *)
(* a smaller mean.                                                          *)
C21_WitnessRainfall ==
    /\ TopNDone /\ response # <<>>
    /\ parsed.top_n = 1
    /\ Len(analysis.result.top_results) = 1
    /\ analysis.result.top_results[1].unit = "mm"
    /\ analysis.result.top_results[1].value = Rat(200, 1)
    /\ \E g \in GroupsOf("rainfall", "state", "annual_rainfall_mm") :
          GroupValue("rainfall", "state", "annual_rainfall_mm", g, TRUE) = Rat(150, 1)

(* A crop is left out with the same total as the last crop returned. *)
C21_WitnessTie ==
    /\ TopNDone /\ response # <<>>
    /\ Len(analysis.result.top_results) = 1
    /\ \E g \in GroupsOf("production", "crop", "production_tonnes") :
          /\ g # analysis.result.top_results[1].name
          /\ GroupValue("production", "crop", "production_tonnes", g, FALSE)
                = analysis.result.top_results[1].value

(* The table has fewer crops than the query asks for: all are returned. *)
C21_WitnessFewer ==
    /\ TopNDone /\ response # <<>>
    /\ parsed.top_n = DEFAULT_TOP_N
    /\ Len(analysis.result.top_results) = 3

-----------------------------------------------------------------------------
(* Properties of the trend. *)

TrendReturned ==
    /\ analysis # NotAnalysed
    /\ analysis.routine = "trend_analysis"
    /\ ~analysis.result.raises

(* The dataset the trend is of: production if data_results has it, else     *)
(* rainfall; its column of values; the distinct years of its rows.          *)
ChosenDataset == IF DictHas(data_results, DataKey("production")) THEN "production" ELSE "rainfall"
ChosenColumn == IF ChosenDataset = "production" THEN "production_tonnes" ELSE "annual_rainfall_mm"
ChosenYears == GroupsOf(ChosenDataset, "year", ChosenColumn)

(* C22: trend_analysis returns a non-empty trend_summary only when the      *)
(* series of the chosen dataset has at least two distinct years, the chosen *)
(* dataset being production whenever data_results has a production dataset  *)
(* and rainfall only when it has none: the yearly data of the summary are   *)
(* the yearly totals (means, for rainfall) of that dataset.  When the       *)
(* summary is empty the confidence is 0.0 and the trend answer is           *)
(* 'Insufficient data for trend analysis.'.                                 *)
C22_TrendPreconditions ==
    TrendReturned =>
       LET summary == analysis.result.trend_summary
       IN /\ summary # <<>> =>
                /\ Cardinality(ChosenYears) >= 2
                /\ {summary.yearly_data[i].year : i \in DOMAIN summary.yearly_data} = ChosenYears
                /\ \A i \in DOMAIN summary.yearly_data :
                      summary.yearly_data[i].value =
                         GroupValue(ChosenDataset, "year", ChosenColumn,
                                    summary.yearly_data[i].year, ChosenDataset = "rainfall")
          /\ summary = <<>> =>
                /\ analysis.result.confidence = 0
                /\ response # <<>> =>
                      response.answer = <<"Insufficient data for trend analysis.">>

(* A summary of a production table of two years, answered. *)
C22_Witness ==
    /\ TrendReturned /\ response # <<>>
    /\ analysis.result.trend_summary # <<>>
    /\ ChosenDataset = "production"
    /\ Cardinality(ChosenYears) = 2

(* Several rows of one year only: no summary, and the answer says so. *)
C22_WitnessOneYear ==
    /\ TrendReturned /\ response # <<>>
    /\ analysis.result.trend_summary = <<>>
    /\ Len(TableRows(ChosenDataset)) >= 2
    /\ Cardinality(ChosenYears) = 1

(* A production table of one year beside a rainfall table of two years: no  *)
(* summary.                                                                 *)
C22_WitnessPrecedence ==
    /\ TrendReturned /\ response # <<>>
    /\ analysis.result.trend_summary = <<>>
    /\ ChosenDataset = "production"
    /\ Cardinality(ChosenYears) = 1
    /\ Cardinality(GroupsOf("rainfall", "year", "annual_rainfall_mm")) = 2

(* A production dataset without rows beside a rainfall table of two years:  *)
(* no summary.                                                              *)
C22_WitnessEmptyProduction ==
    /\ TrendReturned /\ response # <<>>
    /\ analysis.result.trend_summary = <<>>
    /\ ChosenDataset = "production"
    /\ TableRows("production") = <<>>
    /\ Cardinality(GroupsOf("rainfall", "year", "annual_rainfall_mm")) = 2

(* A summary of a rainfall table, there being no production dataset. *)
C22_WitnessRainfall ==
    /\ TrendReturned /\ response # <<>>
    /\ analysis.result.trend_summary # <<>>
    /\ ChosenDataset = "rainfall"
    /\ Cardinality(ChosenYears) = 3

-----------------------------------------------------------------------------
(* Properties of the intent. *)

(* The patterns the words of the query match: a word of the pattern, and    *)
(* for 'top' the word followed by a number.                                 *)
HasWord(w) == \E k \in DOMAIN words : words[k] = w
MatchesCompare == HasWord(<<"c", "o", "m", "p", "a", "r", "e">>)
MatchesTop ==
    \E k \in DOMAIN words :
        k < Len(words) /\ words[k] = <<"T", "o", "p">> /\ words[k + 1] = <<"3">>
MatchesTrend == HasWord(<<"t", "r", "e", "n", "d">>)
MatchesCorrelation == HasWord(<<"i", "m", "p", "a", "c", "t">>)
HasRetrieveWord == HasWord(<<"s", "o", "m", "e", "w", "h", "a", "t">>)

(* C23: the intent of a parsed query is that of the first pattern it        *)
(* matches in the order compare, top, trend, correlation; a query that      *)
(* matches none of the four is 'retrieve' if 'what', 'which' or 'list'      *)
(* occurs in it, inside a word or not, and 'compare' otherwise.             *)
C23_IntentPrecedence ==
    parsed # NotParsed =>
       parsed.intent = IF MatchesCompare THEN "compare"
                       ELSE IF MatchesTop THEN "top"
                       ELSE IF MatchesTrend THEN "trend"
                       ELSE IF MatchesCorrelation THEN "correlation"
                       ELSE IF HasRetrieveWord THEN "retrieve"
                       ELSE "compare"

(* A query that matches the patterns of compare and of top: compare. *)
C23_Witness ==
    /\ parsed # NotParsed
    /\ MatchesCompare /\ MatchesTop
    /\ words[1] = <<"T", "o", "p">>
    /\ parsed.intent = "compare"

(* A query that matches top, trend and correlation: top. *)
C23_WitnessTop ==
    /\ parsed # NotParsed
    /\ ~MatchesCompare /\ MatchesTop /\ MatchesTrend
    /\ words[1] = <<"t", "r", "e", "n", "d">>
    /\ parsed.intent = "top"

(* A query that matches correlation, then trend: trend. *)
C23_WitnessTrend ==
    /\ parsed # NotParsed
    /\ words[1] = <<"i", "m", "p", "a", "c", "t">>
    /\ MatchesTrend /\ HasRetrieveWord
    /\ parsed.intent = "trend"

(* 'Top' without a number and 'what' inside a word: retrieve. *)
C23_WitnessRetrieve ==
    /\ parsed # NotParsed
    /\ HasWord(<<"T", "o", "p">>) /\ ~MatchesTop /\ HasRetrieveWord
    /\ parsed.intent = "retrieve"

(* No pattern and none of the three words: compare. *)
C23_WitnessDefault ==
    /\ parsed # NotParsed
    /\ ~MatchesCompare /\ HasWord(<<"3">>) /\ HasWord(<<"r", "i", "c", "e">>)
    /\ parsed.intent = "compare"

====
